---- MODULE Spec2Model ----
(***************************************************************************)
(* Model of the media relay engine of the Janus streaming plugin           *)
(* (src/janus_ftl.c): per-viewer forwarding, the ingestion loop, the       *)
(* keyframe buffer, helper workers, viewer attachment, the port allocator  *)
(* and mountpoint teardown.                                                *)
(***************************************************************************)
EXTENDS Integers, Sequences, FiniteSets, TLC

(***************************************************************************)
(* Bounds of the model                                                     *)
(***************************************************************************)
\* number of values of one header byte (the real width is 256): a 16-bit
\* field has ByteBase^2 values and a 32-bit field ByteBase^4
ByteBase == 2
\* packets the source sends in one behaviour
MaxPackets == 3
\* clock ticks in one behaviour
MaxTime == 2

Seq16 == ByteBase * ByteBase
Seq32 == Seq16 * Seq16

\* video packets the source sends in one behaviour of the keyframe specification
KfPackets == 5

\* the first port of the configured range, as written in the configuration
ConfiguredMin == 2
\* the number of ports from the first port of the range to the last
RangeSize == 4
\* datagrams the source sends in one behaviour of the poll loop specification
LoopPackets == 2
\* helper threads a mountpoint is created with, at most
MaxHelpers == 2
\* ticks of the clock in a second
G_USEC_PER_SEC == 2
\* the last tick of the clock in the specifications of the RTCP feedback
PliTime == 7
\* the highest bitrate a viewer reports
MaxBitrate == 2
\* the last tick of the clock in the specification of the REMB
RembTime == 6
\* the collision guard of the collision specification, in ticks of the clock
CollisionWindow == 2
\* the highest temporal layer of an SVC packet
TemporalLayers == 2
\* packets the source sends while the helpers of a mountpoint end
HelpPackets == 2
\* the most references a leaking request may pile up on one counter
MaxRefs == 4
\* the requests and callbacks one behaviour of the attachment specification serves
MaxRequests == 4
\* the on-demand threads one session may have running
MaxThreads == 1
\* the seconds the clock of the RTSP specification runs for
RtspSeconds == 14
\* the reconnects an RTSP source attempts
RtspAttempts == 2
\* datagrams the source sends in one behaviour of the skew specification
SkewPackets == 2
\* datagrams the source sends in one behaviour of the buffer specification
BufPackets == 3
\* the number of values of a port (the real width, uint16_t, has 65536)
PortSpace == 16

(***************************************************************************)
(* Program constants                                                       *)
(***************************************************************************)
\* 250000us, the SVC fallback window, in clock ticks of 125ms
SvcFallback == 2
\* the SSRC written into buffered keyframe packets, htons(1)
KeyframeSsrc == 1
\* the SSRC of the source, and the SSRC of a second sender on the same port
SourceSsrc == KeyframeSsrc + 1
OtherSsrc == SourceSsrc + 1

(***************************************************************************)
(* Byte order: a header field is kept in network order as its bytes, most  *)
(* significant first                                                       *)
(***************************************************************************)
htons(x) == << (x \div ByteBase) % ByteBase, x % ByteBase >>
ntohs(n) == n[1] * ByteBase + n[2]
htonl(x) == << (x \div (ByteBase * ByteBase * ByteBase)) % ByteBase,
               (x \div (ByteBase * ByteBase)) % ByteBase,
               (x \div ByteBase) % ByteBase,
               x % ByteBase >>
ntohl(n) == ((n[1] * ByteBase + n[2]) * ByteBase + n[3]) * ByteBase + n[4]

(***************************************************************************)
(* janus_rtp_switching_context, one media at a time (a_* or v_* fields)    *)
(***************************************************************************)
ZeroMediaContext ==
  [last_ssrc |-> 0, base_ts |-> 0, base_ts_prev |-> 0, last_ts |-> 0,
   base_seq |-> 0, base_seq_prev |-> 0, last_seq |-> 0, last_time |-> 0]

\* janus_rtp_switching_context_reset: memset to zero
janus_rtp_switching_context_reset == [a |-> ZeroMediaContext, v |-> ZeroMediaContext]

\* the context after janus_rtp_header_update saw a header with this ssrc,
\* timestamp and sequence number at time now
ContextUpdate(c, ssrc, timestamp, seq, now) ==
  LET switched == ssrc # c.last_ssrc
      diff == IF now - c.last_time = 0 THEN 1 ELSE now - c.last_time
      off == IF switched /\ c.last_time > 0 THEN diff ELSE 0
      base_ts == IF switched THEN timestamp ELSE c.base_ts
      base_ts_prev == IF switched THEN (c.last_ts + off) % Seq32 ELSE c.base_ts_prev
      base_seq == IF switched THEN seq ELSE c.base_seq
      base_seq_prev == IF switched THEN c.last_seq ELSE c.base_seq_prev
  IN [last_ssrc |-> ssrc,
      base_ts |-> base_ts,
      base_ts_prev |-> base_ts_prev,
      last_ts |-> (timestamp - base_ts + base_ts_prev) % Seq32,
      base_seq |-> base_seq,
      base_seq_prev |-> base_seq_prev,
      last_seq |-> (seq - base_seq + base_seq_prev + 1) % Seq16,
      last_time |-> now]

\* janus_rtp_header_update(header, context, video, 0): rewrites the header's
\* timestamp and sequence number from the context, which it updates
janus_rtp_header_update(header, context, video, now) ==
  LET Updated(n) ==
        [header |-> [header EXCEPT !.timestamp = htonl(n.last_ts),
                                   !.seq_number = htons(n.last_seq)],
         context |-> IF video THEN [context EXCEPT !.v = n] ELSE [context EXCEPT !.a = n]]
  IN Updated(ContextUpdate(IF video THEN context.v ELSE context.a, header.ssrc,
                           ntohl(header.timestamp), ntohs(header.seq_number), now))

(***************************************************************************)
(* Per-viewer forwarding: janus_streaming_relay_rtp_packet                 *)
(***************************************************************************)
\* session->mountpoint of a session that watches nothing
NoMountpoint == "NULL"

\* a viewer session right after janus_streaming_create_session
NewSession ==
  [mountpoint |-> NoMountpoint, started |-> FALSE, paused |-> FALSE, stopping |-> FALSE,
   audio |-> TRUE, video |-> TRUE, data |-> TRUE, dataready |-> FALSE,
   context |-> janus_rtp_switching_context_reset,
   spatial_layer |-> -1, target_spatial_layer |-> 2,
   last_spatial_layer |-> <<0, 0, 0>>,
   temporal_layer |-> -1, target_temporal_layer |-> 2]

\* session->last_spatial_layer[layer]; the array has three elements, a read
\* past its end yields whatever follows it in the session (oob)
LastSpatialLayer(session, layer, oob) ==
  IF layer \in 0..2 THEN session.last_spatial_layer[layer + 1] ELSE oob

\* the while loop that lowers the layer to upscale to until it is one that
\* received traffic within the fallback window
RECURSIVE NewSpatialLayer(_, _, _, _)
NewSpatialLayer(new_spatial_layer, session, now, oob) ==
  IF new_spatial_layer > session.spatial_layer /\ new_spatial_layer > 0
       /\ now - LastSpatialLayer(session, new_spatial_layer, oob) >= SvcFallback
  THEN NewSpatialLayer(new_spatial_layer - 1, session, now, oob)
  ELSE new_spatial_layer

\* the spatial layer decision without the keyframe test before the upscale
SvcSpatialAnyPacket(session, packet, now, oob) ==
  LET info == packet.svc_info
      s0 == IF info.spatial_layer \in 0..2
            THEN [session EXCEPT !.last_spatial_layer[info.spatial_layer + 1] = now]
            ELSE session
      n == NewSpatialLayer(s0.target_spatial_layer, s0, now, oob)
  IN IF s0.target_spatial_layer > s0.spatial_layer /\ n > s0.spatial_layer
     THEN [session |-> [s0 EXCEPT !.spatial_layer = n,
                          !.temporal_layer = IF @ = -1 THEN 0 ELSE @],
           spatial_layer |-> n]
     ELSE [session |-> s0, spatial_layer |-> s0.spatial_layer]

\* the spatial layer decision of the SVC path: the session afterwards and the
\* local spatial_layer the drop test uses
SvcSpatial(session, packet, now, oob) ==
  LET info == packet.svc_info
      keyframe == packet.data.keyframe
      s0 == IF info.spatial_layer \in 0..2
            THEN [session EXCEPT !.last_spatial_layer[info.spatial_layer + 1] = now]
            ELSE session
  IN IF s0.target_spatial_layer > s0.spatial_layer
     THEN IF keyframe
          THEN LET n == NewSpatialLayer(s0.target_spatial_layer, s0, now, oob)
               IN IF n > s0.spatial_layer
                  THEN [session |-> [s0 EXCEPT !.spatial_layer = n,
                                       !.temporal_layer = IF @ = -1 THEN 0 ELSE @],
                        spatial_layer |-> n]
                  ELSE [session |-> s0, spatial_layer |-> s0.spatial_layer]
          ELSE [session |-> s0, spatial_layer |-> s0.spatial_layer]
     ELSE IF s0.target_spatial_layer < s0.spatial_layer
     THEN LET downscaled == (~info.fbit /\ keyframe) \/ (info.fbit /\ info.ebit)
          IN [session |-> IF downscaled
                          THEN [s0 EXCEPT !.spatial_layer = s0.target_spatial_layer]
                          ELSE s0,
              spatial_layer |-> s0.spatial_layer]
     ELSE [session |-> s0, spatial_layer |-> s0.spatial_layer]

\* a temporal layer decision that goes up on any packet of a layer above
\* the achieved one, whatever its U and B bit
SvcTemporalAnyPacket(session, packet) ==
  LET info == packet.svc_info
  IN IF session.target_temporal_layer > session.temporal_layer
     THEN IF info.temporal_layer > session.temporal_layer
               /\ info.temporal_layer <= session.target_temporal_layer
          THEN [session |-> [session EXCEPT !.temporal_layer = info.temporal_layer],
                temporal_layer |-> info.temporal_layer]
          ELSE [session |-> session, temporal_layer |-> session.temporal_layer]
     ELSE IF session.target_temporal_layer < session.temporal_layer
     THEN [session |-> IF info.ebit /\ info.temporal_layer = session.target_temporal_layer
                       THEN [session EXCEPT !.temporal_layer = session.target_temporal_layer]
                       ELSE session,
           temporal_layer |-> session.temporal_layer]
     ELSE [session |-> session, temporal_layer |-> session.temporal_layer]

\* the temporal layer decision of the SVC path
SvcTemporal(session, packet) ==
  LET info == packet.svc_info
  IN IF session.target_temporal_layer > session.temporal_layer
     THEN IF info.ubit /\ info.bbit
               /\ info.temporal_layer > session.temporal_layer
               /\ info.temporal_layer <= session.target_temporal_layer
          THEN [session |-> [session EXCEPT !.temporal_layer = info.temporal_layer],
                temporal_layer |-> info.temporal_layer]
          ELSE [session |-> session, temporal_layer |-> session.temporal_layer]
     ELSE IF session.target_temporal_layer < session.temporal_layer
     THEN [session |-> IF info.ebit /\ info.temporal_layer = session.target_temporal_layer
                       THEN [session EXCEPT !.temporal_layer = session.target_temporal_layer]
                       ELSE session,
           temporal_layer |-> session.temporal_layer]
     ELSE [session |-> session, temporal_layer |-> session.temporal_layer]

\* what gateway->relay_rtp / relay_data is handed, with the viewer's achieved
\* spatial layer at that moment
RelayCall(fn, session, packet, buffer) ==
  [fn |-> fn, id |-> packet.id, buffer |-> buffer, video |-> packet.is_video,
   svc |-> packet.wire_svc, spatial_layer |-> packet.wire_info.spatial_layer,
   achieved |-> session.spatial_layer, last_seq |-> IF packet.is_video
       THEN session.context.v.last_seq ELSE session.context.a.last_seq,
   last_ts |-> IF packet.is_video
       THEN session.context.v.last_ts ELSE session.context.a.last_ts,
   started |-> session.started, paused |-> session.paused,
   is_keyframe |-> packet.is_keyframe, binary |-> ~packet.textdata]

\* "Restore the timestamp and sequence number to what the publisher set them to"
RestoreNothing(data, packet) == data

RestoreHeader(data, packet) ==
  [data EXCEPT !.timestamp = htonl(packet.timestamp),
               !.seq_number = htons(packet.seq_number)]

\* update the header from the viewer's context, relay, restore: the tail
\* shared by the SVC, simulcast and default paths
SendRtp(session, packet, video, mark, now) ==
  LET Forwarded(u) ==
        LET s == [session EXCEPT !.context = u.context]
            sent == IF mark THEN [u.header EXCEPT !.markerbit = 1] ELSE u.header
            back == IF mark THEN [sent EXCEPT !.markerbit = 0] ELSE sent
        IN [session |-> s,
            data |-> RestoreHeader(back, packet),
            calls |-> << RelayCall("relay_rtp", s, packet, sent) >>]
  IN Forwarded(janus_rtp_header_update(packet.data, session.context, video, now))

Dropped(session, packet) == [session |-> session, data |-> packet.data, calls |-> << >>]

\* "if(!session->video) return;" and its siblings for audio and data
FlagOff(flag) == ~flag

\* "Make sure there hasn't been a publisher switch": packets of the keyframe
\* buffer pass, live packets need a started and unpaused session
NotReadyIgnoringPause(session, packet) ==
  ~packet.is_keyframe /\ ~session.started

NotReady(session, packet) ==
  ~packet.is_keyframe /\ (~session.started \/ session.paused)

\* janus_streaming_relay_rtp_packet(session, packet): the session and the
\* packet's buffer afterwards and the gateway calls made. simrelay is the
\* verdict of janus_rtp_simulcasting_context_process_rtp
janus_streaming_relay_rtp_packet(session, packet, now, simrelay, oob) ==
  IF NotReady(session, packet)
  THEN Dropped(session, packet)
  ELSE IF packet.is_rtp
  THEN IF packet.is_video
       THEN IF FlagOff(session.video) THEN Dropped(session, packet)
            ELSE IF packet.svc
            THEN LET sp == SvcSpatial(session, packet, now, oob)
                     has_marker_bit == packet.data.markerbit = 1
                 IN IF sp.spatial_layer < packet.svc_info.spatial_layer
                    THEN Dropped([sp.session EXCEPT !.context.v.base_seq = (@ + 1) % Seq16], packet)
                    ELSE LET override_mark_bit == packet.svc_info.ebit
                                 /\ sp.spatial_layer = packet.svc_info.spatial_layer
                             tp == SvcTemporal(sp.session, packet)
                         IN IF tp.temporal_layer < packet.svc_info.temporal_layer
                            THEN Dropped([tp.session EXCEPT !.context.v.base_seq = (@ + 1) % Seq16], packet)
                            ELSE SendRtp(tp.session, packet, TRUE,
                                         override_mark_bit /\ ~has_marker_bit, now)
            ELSE IF packet.simulcast
            THEN IF ~simrelay THEN Dropped(session, packet)
                 ELSE SendRtp(session, packet, TRUE, FALSE, now)
            ELSE SendRtp(session, packet, TRUE, FALSE, now)
       ELSE IF FlagOff(session.audio) THEN Dropped(session, packet)
            ELSE SendRtp(session, packet, FALSE, FALSE, now)
  ELSE IF FlagOff(session.data) THEN Dropped(session, packet)
       ELSE IF session.dataready
       THEN [session |-> session, data |-> packet.data,
             calls |-> << RelayCall("relay_data", session, packet, packet.data) >>]
       ELSE Dropped(session, packet)

\* janus_streaming_relay_rtcp_packet(session, packet): what a helper thread
\* calls for a queued packet that is not RTP
janus_streaming_relay_rtcp_packet(session, packet) ==
  IF ~session.started \/ session.paused
  THEN Dropped(session, packet)
  ELSE [session |-> session, data |-> packet.data,
        calls |-> << RelayCall("relay_rtcp", session, packet, packet.data) >>]

\* "pkt->is_rtp ? janus_streaming_relay_rtp_packet :
\* janus_streaming_relay_rtcp_packet" of the helper thread
HelperRelay(session, pkt, now, simrelay, oob) ==
  IF pkt.is_rtp THEN janus_streaming_relay_rtp_packet(session, pkt, now, simrelay, oob)
  ELSE janus_streaming_relay_rtcp_packet(session, pkt)

(***************************************************************************)
(* State                                                                   *)
(***************************************************************************)
VARIABLES
  mountpoints,   \* the registry's mountpoints: id -> janus_streaming_mountpoint
  sessions,      \* viewer sessions: id -> janus_streaming_session
  now,           \* janus_get_monotonic_time(), in ticks
  sender,        \* the source: datagrams sent so far, its timestamp and sequence number
  calls,         \* the gateway calls the last step made, in order
  handled,       \* the packet the last step worked on
  delivered,     \* per session, the audio packets relayed to it on its PeerConnection
  eligible,      \* per session, the packets sent before it was started, and the
                 \* audio packets fanned out since while it was ready
  alloc,         \* the port allocator: slider, bound ports, requests under way
  pc,            \* where each thread of the fine-grained specifications is
  locks          \* the owner of each mutex

vars == << mountpoints, sessions, now, sender, calls, handled, delivered, eligible,
           alloc, pc, locks >>

\* the packet a step worked on: its number and whether its payload starts a
\* keyframe; Nothing for a step that handles no packet
Handled(packet) == [id |-> packet.id, keyframe |-> packet.data.keyframe]
Nothing == [id |-> 0, keyframe |-> FALSE]

\* what the relay engine leaves alone
aside == << alloc, pc, locks >>

\* the relay engine's variables
media == << mountpoints, sessions, now, sender, calls, handled, delivered, eligible >>

\* the threads and the mutexes where a specification has no use for them
NoThreads == << >>
NoLocks == << >>

Sessions == {"s1", "s2"}

\* svc_info of a packet without SVC information (memset to zero)
NoSvcInfo ==
  [spatial_layer |-> 0, temporal_layer |-> 0, fbit |-> FALSE, ebit |-> FALSE,
   ubit |-> FALSE, bbit |-> FALSE]

\* the svc_info values the source sends
SvcInfos ==
  { [spatial_layer |-> sl, temporal_layer |-> 0, fbit |-> f, ebit |-> f,
     ubit |-> TRUE, bbit |-> TRUE] : sl \in 0..2, f \in BOOLEAN }

\* an RTP header as the model keeps it: timestamp and sequence number in
\* network order, the SSRC, the marker bit, and whether the payload starts a
\* keyframe (what janus_vp9_is_keyframe and its siblings read)
Header(ssrc, ts, seq, marker, keyframe) ==
  [timestamp |-> htonl(ts), seq_number |-> htons(seq), ssrc |-> ssrc,
   markerbit |-> marker, keyframe |-> keyframe]

\* the ingestion thread's packet before the first datagram
NoPacket ==
  [id |-> 0, data |-> Header(0, 0, 0, 0, FALSE), is_rtp |-> FALSE, is_video |-> FALSE,
   is_keyframe |-> FALSE, simulcast |-> FALSE, svc |-> FALSE, svc_info |-> NoSvcInfo,
   timestamp |-> 0, seq_number |-> 0, textdata |-> FALSE,
   \* not fields of the struct: what the datagram carried and whether the
   \* mountpoint was enabled when it arrived
   wire_svc |-> FALSE, wire_info |-> NoSvcInfo, wire_text |-> FALSE, recv_enabled |-> TRUE]

\* a helper worker right after it is created
NewHelper == [viewers |-> << >>, num_viewers |-> 0, queued_packets |-> << >>, destroyed |-> FALSE]

\* the RTP source of a mountpoint, as janus_streaming_create_rtp_source leaves it
NewSource(cfg) ==
  [svc |-> cfg.svc, simulcast |-> cfg.simulcast, askew |-> cfg.askew,
   vskew |-> cfg.vskew,
   is_srtp |-> cfg.is_srtp, rtp_collision |-> cfg.rtp_collision,
   a_last_ssrc |-> 0, v_last_ssrc |-> 0,
   context |-> janus_rtp_switching_context_reset,
   last_received_audio |-> 0, last_received_video |-> 0, last_received_data |-> 0,
   \* the recorders (open or NULL) and the frames saved to them
   arc |-> FALSE, vrc |-> FALSE, drc |-> FALSE, saved |-> << >>,
   textdata |-> cfg.textdata, buffermsg |-> cfg.buffermsg, last_msg |-> NoPacket,
   \* the copy the data branch of the ingestion thread makes of a message
   \* for the buffer (its local pkt)
   pkt |-> NoPacket,
   keyframe |-> [enabled |-> cfg.bufferkf, latest_keyframe |-> << >>,
                 temp_keyframe |-> << >>, temp_ts |-> 0],
   packet |-> NoPacket]

\* a mountpoint as janus_streaming_create_rtp_source leaves it
NewMountpoint(cfg) ==
  [enabled |-> TRUE, destroyed |-> FALSE, registered |-> TRUE, thread |-> "running",
   audio |-> cfg.audio, video |-> cfg.video, data |-> cfg.data,
   viewers |-> << >>, helper_threads |-> cfg.threads,
   threads |-> [h \in 1..cfg.threads |-> NewHelper],
   source |-> NewSource(cfg)]

\* the mountpoint configurations the relay specification starts from
BaseConfig ==
  [audio |-> TRUE, video |-> FALSE, data |-> FALSE, threads |-> 0, svc |-> FALSE, simulcast |-> FALSE,
   bufferkf |-> FALSE, askew |-> FALSE, vskew |-> FALSE, is_srtp |-> FALSE, rtp_collision |-> 0,
   textdata |-> TRUE, buffermsg |-> FALSE]

Configs ==
  { BaseConfig,
    [BaseConfig EXCEPT !.threads = 1],
    [BaseConfig EXCEPT !.askew = TRUE, !.is_srtp = TRUE, !.rtp_collision = 1],
    [BaseConfig EXCEPT !.audio = FALSE, !.video = TRUE, !.bufferkf = TRUE],
    [BaseConfig EXCEPT !.audio = FALSE, !.video = TRUE, !.simulcast = TRUE],
    [BaseConfig EXCEPT !.audio = FALSE, !.video = TRUE, !.svc = TRUE],
    [BaseConfig EXCEPT !.audio = FALSE, !.video = TRUE, !.svc = TRUE, !.threads = 1] }

SeqToSet(q) == { q[i] : i \in 1..Len(q) }

(***************************************************************************)
(* The port allocator: janus_streaming_create_fd and                       *)
(* janus_streaming_allocate_port_pair                                      *)
(***************************************************************************)
\* the range after the configuration is parsed: "Pick an even port for RTP"
rtp_range_min == IF ConfiguredMin % 2 = 1 THEN ConfiguredMin + 1 ELSE ConfiguredMin
rtp_range_max == rtp_range_min + RangeSize - 1

\* the allocator after janus_streaming_init: the slider on the first port, no
\* port bound. bound maps each bound port to the request that bound it;
\* streak holds the results of the successive requests with hint 0 made
\* since no port was bound, as long as nothing else used the allocator
NewAlloc ==
  [rtp_range_slider |-> rtp_range_min, bound |-> << >>,
   streak |-> [valid |-> TRUE, results |-> << >>]]

\* "Pick a port in the configured range": the port to try after this one
NextPortNoWrap(next, wrap) == [next |-> (next + 1) % PortSpace, wrap |-> wrap]

NextPort(next, wrap) ==
  IF next < rtp_range_max
  THEN [next |-> (next + 1) % PortSpace, wrap |-> wrap]
  ELSE [next |-> rtp_range_min, wrap |-> TRUE]

\* the loop of janus_streaming_create_fd with hint 0: the port bound, or -1,
\* and the ports it tried to bind, in order
RECURSIVE ScanRange(_, _, _, _, _)
ScanRange(next, start, wrap, inuse, tried) ==
  IF wrap /\ next >= start
  THEN [port |-> -1, tried |-> tried]
  ELSE LET n == NextPort(next, wrap)
       IN IF next \in inuse
          THEN ScanRange(n.next, start, n.wrap, inuse, Append(tried, next))
          ELSE [port |-> next, tried |-> Append(tried, next)]

\* the allocator with one more port bound
Bind(a, port, via) ==
  [a EXCEPT !.bound = [q \in DOMAIN a.bound \cup {port} |->
                         IF q = port THEN via ELSE a.bound[q]]]

\* the allocator with the socket of a port closed
Unbind(a, port) ==
  [a EXCEPT !.bound = [q \in DOMAIN a.bound \ {port} |-> a.bound[q]]]

\* the streak ends when something other than a request with hint 0 uses the
\* allocator, and starts again when no port is bound
EndStreak(a) ==
  [a EXCEPT !.streak = [valid |-> DOMAIN a.bound = {}, results |-> << >>]]

\* an allocating thread that is not in janus_streaming_allocate_port_pair
Idle == [at |-> "idle", next |-> 0, start |-> 0, wrap |-> FALSE, rtp_port |-> 0]

\* janus_streaming_create_fd(0, ...): the whole call, under fd_mutex
CreateFd(t) ==
  LET r == ScanRange(alloc.rtp_range_slider, alloc.rtp_range_slider, FALSE,
                     DOMAIN alloc.bound, << >>)
      a == IF r.port = -1 THEN alloc
           ELSE [Bind(alloc, r.port, "single") EXCEPT !.rtp_range_slider = r.port]
  IN /\ pc[t].at = "idle"
     /\ Len(alloc.streak.results) <= RangeSize
     /\ alloc' = IF alloc.streak.valid THEN [a EXCEPT !.streak.results = Append(@, r)]
                 ELSE a
     /\ UNCHANGED << media, pc, locks >>

\* a socket is closed: its mountpoint is destroyed
Release(port) ==
  /\ port \in DOMAIN alloc.bound
  /\ \A t \in DOMAIN pc : pc[t].at = "rtcp" => pc[t].rtp_port # port
  /\ alloc' = EndStreak(Unbind(alloc, port))
  /\ UNCHANGED << media, pc, locks >>

\* janus_streaming_allocate_port_pair: "Start from the global slider", read
\* without fd_mutex
PairBegin(t) ==
  LET next == IF alloc.rtp_range_slider % 2 # 0
              THEN (alloc.rtp_range_slider + 1) % PortSpace
              ELSE alloc.rtp_range_slider
  IN /\ pc[t].at = "idle"
     /\ pc' = [pc EXCEPT ![t] = [Idle EXCEPT !.at = "loop", !.next = next, !.start = next]]
     /\ alloc' = EndStreak(alloc)
     /\ UNCHANGED << media, locks >>

\* one turn of its loop, up to the socket of the RTP port
PairRtp(t) ==
  LET l == pc[t]
      advanced == IF l.next + 2 < rtp_range_max
                  THEN [l EXCEPT !.next = (l.next + 2) % PortSpace, !.rtp_port = l.next]
                  ELSE [l EXCEPT !.next = rtp_range_min, !.wrap = TRUE, !.rtp_port = l.next]
  IN /\ l.at = "loop"
     /\ IF l.wrap /\ l.next >= l.start
        THEN /\ pc' = [pc EXCEPT ![t] = Idle]
             /\ alloc' = EndStreak(alloc)
        ELSE IF l.next \in DOMAIN alloc.bound
        THEN /\ pc' = [pc EXCEPT ![t] = advanced]
             /\ alloc' = EndStreak(alloc)
        ELSE /\ pc' = [pc EXCEPT ![t] = [advanced EXCEPT !.at = "rtcp"]]
             /\ alloc' = EndStreak(Bind(alloc, l.next, "rtp"))
     /\ UNCHANGED << media, locks >>

\* the socket of the RTCP port, and "Update global slider"
PairRtcp(t) ==
  LET l == pc[t]
      rtcp_port == l.rtp_port + 1
  IN /\ l.at = "rtcp"
     /\ IF rtcp_port \in DOMAIN alloc.bound
        THEN /\ pc' = [pc EXCEPT ![t].at = "loop"]
             /\ alloc' = EndStreak(Unbind(alloc, l.rtp_port))
        ELSE /\ pc' = [pc EXCEPT ![t] = Idle]
             /\ alloc' = EndStreak([Bind(alloc, rtcp_port, "rtcp") EXCEPT
                                      !.rtp_range_slider = l.next])
     /\ UNCHANGED << media, locks >>

(***************************************************************************)
(* Fan-out: direct forwarding and helper workers                           *)
(***************************************************************************)
\* a gateway call with the viewer it was made for, the buffer's header when
\* janus_streaming_relay_rtp_packet was entered and when it returned, and
\* the original values saved in the RelayPacket
TagCall(c, v, packet, exit, via) ==
  [viewer |-> v, call |-> c, entry |-> packet.data, exit |-> exit, via |-> via,
   timestamp |-> packet.timestamp, seq_number |-> packet.seq_number,
   recv_enabled |-> packet.recv_enabled]

TagCalls(cs, v, packet, exit, via) ==
  [i \in 1..Len(cs) |-> TagCall(cs[i], v, packet, exit, via)]

\* g_list_foreach(viewers, janus_streaming_relay_rtp_packet, packet): the
\* viewers are served one after the other on the same buffer, by the
\* ingestion thread or by a helper
RECURSIVE RelayToViewers(_, _, _, _, _, _, _)
RelayToViewers(viewers, sess, packet, time, ext, via, acc) ==
  IF viewers = << >>
  THEN [sessions |-> sess, data |-> packet.data, calls |-> acc]
  ELSE LET v == Head(viewers)
           Served(r) ==
             RelayToViewers(Tail(viewers), [sess EXCEPT ![v] = r.session],
                            [packet EXCEPT !.data = r.data], time, ext, via,
                            acc \o TagCalls(r.calls, v, packet, r.data, via))
       IN Served(IF via = "helper"
                 THEN HelperRelay(sess[v], packet, time, ext.simrelay[v], ext.oob)
                 ELSE janus_streaming_relay_rtp_packet(sess[v], packet, time,
                                                       ext.simrelay[v], ext.oob))

\* janus_streaming_helper_rtprtcp_packet: the clone queued for a helper; the
\* fields it does not copy are zero (g_malloc0)
ClonePacket(packet) ==
  [NoPacket EXCEPT !.id = packet.id, !.recv_enabled = packet.recv_enabled,
                   !.wire_svc = packet.wire_svc, !.wire_info = packet.wire_info,
                   !.wire_text = packet.wire_text,
                   !.data = packet.data, !.is_rtp = packet.is_rtp,
                   !.is_video = packet.is_video, !.is_keyframe = packet.is_keyframe,
                   !.simulcast = packet.simulcast, !.timestamp = packet.timestamp,
                   !.seq_number = packet.seq_number]

janus_streaming_helper_rtprtcp_packet(helper, packet) ==
  [helper EXCEPT !.queued_packets = Append(@, ClonePacket(packet))]

\* the "Go!" block of the ingestion loop: under the mountpoint mutex, relay
\* to every viewer, or queue a clone for every helper
FanOut(mp, sess, packet, time, ext) ==
  IF mp.helper_threads = 0
  THEN LET Served(r) ==
             [mp |-> [mp EXCEPT !.source.packet = [packet EXCEPT !.data = r.data]],
              sessions |-> r.sessions, calls |-> r.calls]
       IN Served(RelayToViewers(mp.viewers, sess, packet, time, ext, "direct", << >>))
  ELSE [mp |-> [mp EXCEPT !.source.packet = packet,
                          !.threads = [h \in DOMAIN mp.threads |->
                              janus_streaming_helper_rtprtcp_packet(mp.threads[h], packet)]],
        sessions |-> sess, calls |-> << >>]

\* the audio packets relayed to each session, extended by the calls of one step
Deliver(d, cs) ==
  [v \in DOMAIN d |->
     d[v] \o [i \in 1..Cardinality({ j \in 1..Len(cs) : cs[j].viewer = v /\ ~cs[j].call.video
                                          /\ cs[j].call.fn # "relay_rtcp" }) |->
                LET js == { j \in 1..Len(cs) : cs[j].viewer = v /\ ~cs[j].call.video
                                          /\ cs[j].call.fn # "relay_rtcp" }
                    j == CHOOSE j \in js : Cardinality({ k \in js : k < j }) = i - 1
                IN [id |-> cs[j].call.id, seq |-> ntohs(cs[j].call.buffer.seq_number),
                    seq_number |-> cs[j].seq_number, ssrc |-> cs[j].call.buffer.ssrc,
                    via |-> cs[j].via]]]

\* the history of a session starts again; none is kept for the sessions
\* outside the history's domain
Since(history, s, start) ==
  IF s \in DOMAIN history THEN [history EXCEPT ![s] = start] ELSE history

\* what the per-viewer forwarding cannot decide by itself: the verdict of the
\* simulcast context for each viewer, and the value a read past the end of
\* last_spatial_layer yields
Exts(mp) ==
  { [simrelay |-> f, oob |-> o] :
      f \in IF mp.source.simulcast THEN [DOMAIN sessions -> BOOLEAN]
           ELSE { [v \in DOMAIN sessions |-> TRUE] },
      o \in IF \E v \in DOMAIN sessions : sessions[v].target_spatial_layer > 2
           THEN {0, now} ELSE {0} }

(***************************************************************************)
(* Requests and callbacks of a viewer session                              *)
(***************************************************************************)
\* the helper a new viewer of "watch" is given: the first of those with the
\* fewest viewers
RECURSIVE LeastLoaded(_, _, _, _)
LeastLoaded(threads, h, helper, viewers) ==
  IF h > Len(threads) THEN helper
  ELSE IF viewers = -1 \/ (helper = 0 /\ threads[h].num_viewers = 0)
            \/ threads[h].num_viewers < viewers
       THEN LeastLoaded(threads, h + 1, h, threads[h].num_viewers)
       ELSE LeastLoaded(threads, h + 1, helper, viewers)

\* the tail of "watch" (label done): append to the mountpoint's viewers and
\* to a helper, unless the session is in the viewers already
AddViewer(mp, s) ==
  IF s \in SeqToSet(mp.viewers) THEN mp
  ELSE LET helper == LeastLoaded(mp.threads, 1, 0, -1)
           withViewer == [mp EXCEPT !.viewers = Append(@, s)]
       IN IF mp.helper_threads > 0
          THEN [withViewer EXCEPT !.threads[helper].viewers = Append(@, s),
                                  !.threads[helper].num_viewers = @ + 1]
          ELSE withViewer

\* the "watch" request
Watch(s, m, do_restart, offer_audio, offer_video, spatial, temporal) ==
  LET session == sessions[s]
      mp == mountpoints[m]
      audio == offer_audio /\ mp.audio
      video == offer_video /\ mp.video
      offered == [session EXCEPT !.stopping = FALSE, !.audio = audio, !.video = video,
                                 !.data = mp.data]
      layered == IF mp.source.simulcast
                 THEN [offered EXCEPT !.context = janus_rtp_switching_context_reset]
                 ELSE IF mp.source.svc
                 THEN [offered EXCEPT !.spatial_layer = -1, !.target_spatial_layer = spatial,
                                      !.temporal_layer = -1, !.target_temporal_layer = temporal]
                 ELSE offered
  IN /\ mp.registered
     /\ IF do_restart
        THEN /\ mountpoints' = [mountpoints EXCEPT ![m] = AddViewer(mp, s)]
             /\ UNCHANGED sessions
        ELSE IF session.mountpoint # NoMountpoint
        THEN \* a renegotiation of the same mountpoint changes nothing here
             /\ session.mountpoint = m /\ session.started
             /\ UNCHANGED << mountpoints, sessions >>
        ELSE /\ s \notin SeqToSet(mp.viewers)
             /\ IF ~audio /\ ~video /\ ~mp.data
                THEN \* nothing to offer: the flags stay as they were just set
                     /\ sessions' = [sessions EXCEPT ![s] = offered]
                     /\ UNCHANGED mountpoints
                ELSE /\ sessions' = [sessions EXCEPT ![s] = [layered EXCEPT !.mountpoint = m]]
                     /\ mountpoints' = [mountpoints EXCEPT ![m] = AddViewer(mp, s)]
     /\ calls' = << >>
     /\ handled' = Nothing
     /\ UNCHANGED << now, sender, delivered, eligible, aside >>

\* the keyframe replay of janus_streaming_setup_media: every packet of the
\* latest keyframe is relayed to the session, in place
RECURSIVE ReplayKeyframe(_, _, _, _, _)
ReplayKeyframe(session, s, todo, done, acc) ==
  IF todo = << >>
  THEN [session |-> session, latest_keyframe |-> done, calls |-> acc]
  ELSE LET pkt == Head(todo)
           Served(r) ==
             ReplayKeyframe(r.session, s, Tail(todo),
                            Append(done, [pkt EXCEPT !.data = r.data]),
                            acc \o TagCalls(r.calls, s, pkt, r.data, "replay"))
       IN Served(janus_streaming_relay_rtp_packet(session, pkt, now, TRUE, 0))

\* "Any recent datachannel message to send?": the buffered last message, if
\* there is one, is relayed to the session after the keyframe
ReplayLastMsg(source, s, r) ==
  IF source.buffermsg /\ source.last_msg # NoPacket
  THEN LET Served(d) ==
             [r EXCEPT !.session = d.session,
                       !.calls = @ \o TagCalls(d.calls, s, source.last_msg, d.data, "replay")]
       IN Served(janus_streaming_relay_rtp_packet(r.session, source.last_msg, now, TRUE, 0))
  ELSE r

\* janus_streaming_setup_media: the PeerConnection of the session is up
janus_streaming_setup_media(s) ==
  LET session == [sessions[s] EXCEPT !.context = janus_rtp_switching_context_reset]
      m == session.mountpoint
  IN /\ ~sessions[s].started
     /\ IF m = NoMountpoint
        THEN /\ sessions' = [sessions EXCEPT ![s] = session]
             /\ calls' = << >>
             /\ delivered' = Since(delivered, s, << >>)
             /\ UNCHANGED mountpoints
        ELSE LET kf == mountpoints[m].source.keyframe
                 Replayed(r) ==
                   /\ sessions' = [sessions EXCEPT ![s] = [r.session EXCEPT !.started = TRUE]]
                   /\ mountpoints' = [mountpoints EXCEPT
                          ![m].source.keyframe.latest_keyframe = r.latest_keyframe]
                   /\ calls' = r.calls
                   /\ delivered' = Deliver(Since(delivered, s, << >>), r.calls)
             IN Replayed(ReplayLastMsg(mountpoints[m].source, s,
                            IF kf.enabled
                            THEN ReplayKeyframe(session, s, kf.latest_keyframe, << >>, << >>)
                            ELSE [session |-> session, latest_keyframe |-> kf.latest_keyframe,
                                  calls |-> << >>]))
     /\ eligible' = Since(eligible, s, [since |-> sender.n, ids |-> << >>])
     /\ handled' = Nothing
     /\ UNCHANGED << now, sender, aside >>

\* the "pause" and "start" requests
Pause(s) ==
  /\ sessions[s].mountpoint # NoMountpoint
  /\ sessions' = [sessions EXCEPT ![s].paused = TRUE]
  /\ calls' = << >>
  /\ handled' = Nothing
  /\ UNCHANGED << mountpoints, now, sender, delivered, eligible, aside >>

Start(s) ==
  /\ sessions[s].mountpoint # NoMountpoint
  /\ sessions' = [sessions EXCEPT ![s].paused = FALSE]
  /\ calls' = << >>
  /\ handled' = Nothing
  /\ UNCHANGED << mountpoints, now, sender, delivered, eligible, aside >>

\* the "configure" request of a viewer of an SVC mountpoint: a new target
\* spatial layer
Configure(s, spatial) ==
  LET m == sessions[s].mountpoint
  IN /\ m # NoMountpoint
     /\ mountpoints[m].source.svc
     /\ sessions' = [sessions EXCEPT ![s].target_spatial_layer = spatial]
     /\ calls' = << >>
     /\ handled' = Nothing
     /\ UNCHANGED << mountpoints, now, sender, delivered, eligible, aside >>

(***************************************************************************)
(* The ingestion thread: janus_streaming_relay_thread                      *)
(***************************************************************************)
\* the sequence number of the source's first packet: the next one wraps
FirstSeq == Seq16 - 1

\* the source after one more datagram; an RTP packet takes the next sequence
\* number, and the next timestamp when it starts a new frame
Sent(rtp, newframe) ==
  [n |-> sender.n + 1,
   seq |-> IF rtp THEN (sender.seq + 1) % Seq16 ELSE sender.seq,
   ts |-> IF rtp /\ newframe THEN (sender.ts + 1) % Seq32 ELSE sender.ts]

\* the timestamp of the packet being sent
SentTs(newframe) == IF newframe THEN (sender.ts + 1) % Seq32 ELSE sender.ts

\* a loop that never drops for the skew
SkewNeverDrops(ret) == FALSE

\* "if(ret < 0) { ...; continue; }": the source clock is too fast
SkewDrop(ret) == ret < 0

\* janus_rtp_skew_compensate_audio returning ret > 0: the header and the
\* context jump ret sequence numbers ahead
SkewJump(u, ret) ==
  IF ret > 0
  THEN [header |-> [u.header EXCEPT !.seq_number = htons((ntohs(@) + ret) % Seq16)],
        context |-> [u.context EXCEPT !.a.base_seq_prev = (@ + ret) % Seq16,
                                      !.a.last_seq = (@ + ret) % Seq16]]
  ELSE u

\* janus_rtp_skew_compensate_video returning ret > 0: the same jump, in the
\* video half of the context
SkewJumpVideo(u, ret) ==
  IF ret > 0
  THEN [header |-> SkewJump(u, ret).header,
        context |-> [u.context EXCEPT !.v.base_seq_prev = (@ + ret) % Seq16,
                                      !.v.last_seq = (@ + ret) % Seq16]]
  ELSE u

\* the viewers an audio packet is fanned out to directly and that are ready
\* for it
Ready(mp, sess) ==
  { v \in SeqToSet(mp.viewers) : sess[v].started /\ ~sess[v].paused /\ sess[v].audio }

\* a step of the ingestion thread that leaves the viewers alone
Ingested(m, mp, rtp, newframe) ==
  /\ mountpoints' = [mountpoints EXCEPT ![m] = mp]
  /\ sender' = Sent(rtp, newframe)
  /\ calls' = << >>
  /\ handled' = Nothing
  /\ UNCHANGED << sessions, now, delivered, eligible, alloc, locks >>

\* a step of the ingestion thread that ends in the fan-out of a packet
Relayed(m, mp, packet, newframe, ext) ==
  /\ \E r \in { FanOut(mp, sessions, packet, now, ext) } :
       /\ mountpoints' = [mountpoints EXCEPT ![m] = r.mp]
       /\ sessions' = r.sessions
       /\ calls' = r.calls
       /\ delivered' = Deliver(delivered, r.calls)
  /\ sender' = Sent(TRUE, newframe)
  /\ handled' = Handled(packet)
  /\ eligible' = IF packet.is_video THEN eligible
                 ELSE [v \in DOMAIN eligible |->
                         IF v \in Ready(mp, sessions)
                         THEN [eligible[v] EXCEPT !.ids = Append(@, packet.id)]
                         ELSE eligible[v]]
  /\ UNCHANGED << now, alloc, locks >>

\* srtp_unprotect fails on a datagram of an SRTP mountpoint
SrtpNeverFails(source, srtp_ok) == FALSE

SrtpError(source, srtp_ok) == source.is_srtp /\ ~srtp_ok

\* janus_recorder_save_frame on an open recorder
Recorded(mp, open, id) ==
  IF open THEN [mp EXCEPT !.source.saved = Append(@, id)] ELSE mp

\* "janus_recorder_close(...); source->arc = NULL; ...": every open recorder
\* is closed and cleared
CloseRecorders(mp) ==
  [mp EXCEPT !.source.arc = FALSE, !.source.vrc = FALSE, !.source.drc = FALSE]

\* the packet struct after a datagram that was prepared but not fanned out:
\* the saved timestamp and sequence number are those of the packet before
Prepared(mp, packet) ==
  [mp EXCEPT !.source.packet =
     [packet EXCEPT !.timestamp = mp.source.packet.timestamp,
                    !.seq_number = mp.source.packet.seq_number]]

\* one datagram on the audio socket
IngestAudio(m, wellformed, ssrc, srtp_ok, ret, ext) ==
  LET mp == mountpoints[m]
      source == mp.source
      raw == Header(ssrc, SentTs(TRUE), sender.seq, 0, FALSE)
      collision == source.rtp_collision > 0 /\ source.a_last_ssrc # 0
                     /\ ssrc # source.a_last_ssrc
                     /\ now - source.last_received_audio < source.rtp_collision
      received == [mp EXCEPT !.source.last_received_audio = now,
                             !.source.a_last_ssrc = ssrc]
      u == SkewJump(janus_rtp_header_update(raw, source.context, FALSE, now), ret)
      updated == [received EXCEPT !.source.context = u.context]
      packet == [source.packet EXCEPT
                   !.id = sender.n + 1, !.recv_enabled = mp.enabled,
                   !.wire_svc = FALSE, !.wire_info = NoSvcInfo,
                   !.data = u.header, !.is_rtp = TRUE, !.is_video = FALSE,
                   !.is_keyframe = FALSE,
                   !.timestamp = ntohl(u.header.timestamp),
                   !.seq_number = ntohs(u.header.seq_number)]
  IN /\ mp.thread = "running" /\ mp.audio
     /\ sender.n < MaxPackets
     /\ IF ~wellformed THEN Ingested(m, mp, FALSE, TRUE)
        ELSE IF collision THEN Ingested(m, mp, TRUE, TRUE)
        ELSE IF (~mp.enabled /\ ~source.arc) \/ SrtpError(source, srtp_ok)
        THEN Ingested(m, received, TRUE, TRUE)
        ELSE IF SkewDrop(ret) THEN Ingested(m, Prepared(updated, packet), TRUE, TRUE)
        ELSE IF ~mp.enabled
        THEN Ingested(m, Prepared(Recorded(updated, source.arc, packet.id), packet),
                      TRUE, TRUE)
        ELSE \E relayed \in { packet } :
               Relayed(m, Recorded(updated, source.arc, packet.id), relayed, TRUE, ext)

\* a packet of the keyframe buffer: a copy of the datagram as received
KeyframePacket(raw, id, enabled, svc, info, timestamp) ==
  [NoPacket EXCEPT !.id = id, !.recv_enabled = enabled,
                   !.wire_svc = svc, !.wire_info = info,
                   !.data = [raw EXCEPT !.ssrc = KeyframeSsrc],
                   !.is_rtp = TRUE, !.is_video = TRUE, !.is_keyframe = TRUE,
                   !.timestamp = timestamp,
                   !.seq_number = ntohs(raw.seq_number)]

\* "let's check if this is (part of) a keyframe that we may need to save":
\* the keyframe buffer after a video datagram
KeyframeCapture(kf, raw, id, enabled, svc, info) ==
  LET ts == ntohl(raw.timestamp)
  IN IF ~kf.enabled THEN kf
     ELSE IF kf.temp_ts > 0 /\ ts # kf.temp_ts
     THEN [kf EXCEPT !.temp_ts = 0, !.latest_keyframe = kf.temp_keyframe,
                     !.temp_keyframe = << >>]
     ELSE IF ts = kf.temp_ts
     THEN [kf EXCEPT !.temp_keyframe =
             Append(@, KeyframePacket(raw, id, enabled, svc, info, kf.temp_ts))]
     ELSE IF raw.keyframe
     THEN [kf EXCEPT !.temp_ts = ts,
                     !.temp_keyframe =
                        Append(@, KeyframePacket(raw, id, enabled, svc, info, ts))]
     ELSE kf

\* one datagram on the (first) video socket
IngestVideo(m, wellformed, ssrc, srtp_ok, ret, newframe, keyframe, marker, info, ext) ==
  LET mp == mountpoints[m]
      source == mp.source
      raw == Header(ssrc, SentTs(newframe), sender.seq, marker, keyframe)
      collision == source.rtp_collision > 0 /\ source.v_last_ssrc # 0
                     /\ ssrc # source.v_last_ssrc
                     /\ now - source.last_received_video < source.rtp_collision
      received == [mp EXCEPT !.source.last_received_video = now,
                             !.source.v_last_ssrc = ssrc]
      captured == [received EXCEPT !.source.keyframe =
                     KeyframeCapture(@, raw, sender.n + 1, mp.enabled, source.svc, info)]
      u == SkewJumpVideo(janus_rtp_header_update(raw, source.context, TRUE, now), ret)
      updated == [captured EXCEPT !.source.context = u.context]
      packet == [source.packet EXCEPT
                   !.id = sender.n + 1, !.recv_enabled = mp.enabled,
                   !.wire_svc = source.svc, !.wire_info = info,
                   !.data = u.header, !.is_rtp = TRUE, !.is_video = TRUE,
                   !.is_keyframe = FALSE, !.simulcast = source.simulcast,
                   !.svc = source.svc,
                   !.svc_info = IF source.svc THEN info ELSE @,
                   !.timestamp = ntohl(u.header.timestamp),
                   !.seq_number = ntohs(u.header.seq_number)]
  IN /\ mp.thread = "running" /\ mp.video
     /\ sender.n < MaxPackets
     /\ IF ~wellformed THEN Ingested(m, mp, FALSE, newframe)
        ELSE IF collision THEN Ingested(m, mp, TRUE, newframe)
        ELSE IF SrtpError(source, srtp_ok) THEN Ingested(m, received, TRUE, newframe)
        ELSE IF ~mp.enabled /\ ~source.vrc THEN Ingested(m, captured, TRUE, newframe)
        ELSE IF SkewDrop(ret) THEN Ingested(m, Prepared(updated, packet), TRUE, newframe)
        ELSE IF ~mp.enabled
        THEN Ingested(m, Prepared(Recorded(updated, source.vrc, packet.id), packet),
                      TRUE, newframe)
        ELSE \E relayed \in { packet } :
               Relayed(m, Recorded(updated, source.vrc, packet.id), relayed, newframe, ext)

\* janus_streaming_helper_thread: one packet of the helper's queue, relayed
\* to the helper's viewers
HelperStep(m, h, ext) ==
  LET mp == mountpoints[m]
      helper == mp.threads[h]
      pkt == Head(helper.queued_packets)
      Served(r) ==
        /\ sessions' = r.sessions
        /\ calls' = r.calls
        /\ delivered' = Deliver(delivered, r.calls)
  IN /\ ~mp.destroyed /\ ~helper.destroyed
     /\ helper.queued_packets # << >>
     /\ mountpoints' = [mountpoints EXCEPT ![m].threads[h].queued_packets = Tail(@)]
     /\ Served(RelayToViewers(helper.viewers, sessions, pkt, now, ext, "helper", << >>))
     /\ handled' = Handled(pkt)
     /\ UNCHANGED << now, sender, eligible, aside >>

\* the "enable" and "disable" requests
Enable(m) ==
  /\ mountpoints[m].registered
  /\ mountpoints' = [mountpoints EXCEPT ![m].enabled = TRUE]
  /\ calls' = << >>
  /\ handled' = Nothing
  /\ UNCHANGED << sessions, now, sender, delivered, eligible, aside >>

Disable(m) ==
  /\ mountpoints[m].registered
  /\ mountpoints' = [mountpoints EXCEPT ![m] = [CloseRecorders(@) EXCEPT !.enabled = FALSE]]
  /\ calls' = << >>
  /\ handled' = Nothing
  /\ UNCHANGED << sessions, now, sender, delivered, eligible, aside >>

\* the list without the session
RemoveAll(list, s) == SelectSeq(list, LAMBDA v : v # s)

\* "Remove the viewer from the helper threads too, if any": the first helper
\* that holds the session loses it
RECURSIVE RemoveFromHelper(_, _, _)
RemoveFromHelper(threads, h, s) ==
  IF h > Len(threads) THEN threads
  ELSE IF s \in SeqToSet(threads[h].viewers)
       THEN [threads EXCEPT ![h].num_viewers = @ - 1,
                            ![h].viewers = RemoveAll(@, s)]
       ELSE RemoveFromHelper(threads, h + 1, s)

\* the session fields janus_streaming_hangup_media_internal resets
HungUp(session) ==
  [session EXCEPT !.dataready = FALSE, !.stopping = TRUE, !.started = FALSE,
                  !.paused = FALSE, !.context = janus_rtp_switching_context_reset,
                  !.spatial_layer = -1, !.target_spatial_layer = 2,
                  !.last_spatial_layer = <<0, 0, 0>>,
                  !.temporal_layer = -1, !.target_temporal_layer = 2,
                  !.mountpoint = NoMountpoint]

\* janus_streaming_hangup_media_internal
Hangup(s) ==
  LET m == sessions[s].mountpoint
  IN /\ sessions' = [sessions EXCEPT ![s] = HungUp(@)]
     /\ IF m = NoMountpoint THEN UNCHANGED mountpoints
        ELSE mountpoints' = [mountpoints EXCEPT
               ![m].viewers = RemoveAll(@, s),
               ![m].threads = IF mountpoints[m].helper_threads > 0
                              THEN RemoveFromHelper(@, 1, s) ELSE @]
     /\ calls' = << >>
     /\ handled' = Nothing
     /\ UNCHANGED << now, sender, delivered, eligible, aside >>

\* the clock advances
Tick ==
  /\ now < SvcFallback + MaxTime
  /\ now' = now + 1
  /\ calls' = << >>
  /\ handled' = Nothing
  /\ UNCHANGED << mountpoints, sessions, sender, delivered, eligible, aside >>

(***************************************************************************)
(* Specifications of the relay engine: one mountpoint, its source, its     *)
(* viewers and helpers                                                     *)
(***************************************************************************)
\* the target layers a viewer asks for; the request accepts any non-negative
\* integer
SpatialTargets == {0, 2, 3}

\* what the source may send on the socket
SsrcsOf(source) ==
  IF source.rtp_collision > 0 THEN {SourceSsrc, OtherSsrc} ELSE {SourceSsrc}
SrtpOf(source) == IF source.is_srtp THEN BOOLEAN ELSE {TRUE}
SkewOf(source) == IF source.askew THEN {-1, 0, 1} ELSE {0}
VSkewOf(source) == IF source.vskew THEN {-1, 0, 1} ELSE {0}
InfosOf(source) == IF source.svc THEN SvcInfos ELSE {NoSvcInfo}
\* the marker bit ends the picture: the end of the frame of the top layer
MarkersOf(info) == IF info.ebit /\ info.spatial_layer = 2 THEN {1} ELSE {0}
FramesOf(source) == IF source.keyframe.enabled THEN BOOLEAN ELSE {TRUE}

\* the state a relay specification starts in: one mountpoint of one of the
\* configurations, and the viewers' sessions, watching nothing; the audio
\* history is kept for the sessions in tracked
InitRelay(configs, viewers, tracked) ==
  /\ \E cfg \in configs : mountpoints = [m \in {"mp1"} |-> NewMountpoint(cfg)]
  /\ sessions = [s \in viewers |-> NewSession]
  /\ now = SvcFallback
  /\ sender = [n |-> 0, seq |-> FirstSeq, ts |-> 0]
  /\ calls = << >>
  /\ handled = Nothing
  /\ delivered = [s \in tracked |-> << >>]
  /\ eligible = [s \in tracked |-> [since |-> 0, ids |-> << >>]]
  /\ alloc = NewAlloc
  /\ pc = NoThreads
  /\ locks = NoLocks

\* the steps of the ingestion thread, on the audio and on the video socket,
\* and of the helpers
AudioIn ==
  \E wellformed \in BOOLEAN, ssrc \in SsrcsOf(mountpoints["mp1"].source),
     srtp_ok \in SrtpOf(mountpoints["mp1"].source),
     ret \in SkewOf(mountpoints["mp1"].source), ext \in Exts(mountpoints["mp1"]) :
    IngestAudio("mp1", wellformed, ssrc, srtp_ok, ret, ext) /\ UNCHANGED pc

VideoIn ==
  \E wellformed \in BOOLEAN, ssrc \in SsrcsOf(mountpoints["mp1"].source),
     srtp_ok \in SrtpOf(mountpoints["mp1"].source),
     ret \in VSkewOf(mountpoints["mp1"].source),
     newframe \in FramesOf(mountpoints["mp1"].source), keyframe \in BOOLEAN,
     info \in InfosOf(mountpoints["mp1"].source), ext \in Exts(mountpoints["mp1"]) :
    \E marker \in MarkersOf(info) :
      IngestVideo("mp1", wellformed, ssrc, srtp_ok, ret, newframe, keyframe, marker, info, ext)
        /\ UNCHANGED pc

Helpers ==
  \E h \in DOMAIN mountpoints["mp1"].threads, ext \in Exts(mountpoints["mp1"]) :
    HelperStep("mp1", h, ext)

\* viewers come and are started
Join(targets) ==
  \/ \E s \in DOMAIN sessions, spatial \in targets :
       Watch(s, "mp1", FALSE, TRUE, TRUE, spatial, 2)
  \/ \E s \in DOMAIN sessions : janus_streaming_setup_media(s)

\* every configuration, two viewers, the mountpoint enabled and disabled
Init == InitRelay(Configs, Sessions, {})

Next ==
  \/ AudioIn
  \/ VideoIn
  \/ Helpers
  \/ Join({2})
  \/ Enable("mp1")
  \/ Disable("mp1")

Spec == Init /\ [][Next]_vars

\* the audio configurations, one viewer that pauses, resumes and hangs up
InitAudio == InitRelay({ cfg \in Configs : cfg.audio }, {"s1"}, {"s1"})

NextAudio ==
  \/ AudioIn
  \/ Helpers
  \/ Join({2})
  \/ Pause("s1")
  \/ Start("s1")
  \/ sessions["s1"].mountpoint # NoMountpoint /\ Hangup("s1")
  \/ Tick

SpecAudio == InitAudio /\ [][NextAudio]_vars

\* the SVC configurations, one viewer that changes its target layer
InitSvc == InitRelay({ cfg \in Configs : cfg.svc }, {"s1"}, {})

NextSvc ==
  \/ VideoIn
  \/ Helpers
  \/ Join(SpatialTargets)
  \/ \E spatial \in SpatialTargets : Configure("s1", spatial)
  \/ Tick

SpecSvc == InitSvc /\ [][NextSvc]_vars

(***************************************************************************)
(* Properties of the relay engine                                          *)
(***************************************************************************)
RtpCalls == { i \in 1..Len(calls) : calls[i].call.fn = "relay_rtp" }

\* C1: whenever a packet is forwarded to a viewer, on any path, the header
\* handed to relay_rtp carries the sequence number and timestamp of that
\* viewer's context, the buffer held the packet's original timestamp and
\* sequence number when the viewer's turn began, and it holds them again
\* when janus_streaming_relay_rtp_packet returns
C1_HeaderRewrittenAndRestored ==
  \A i \in RtpCalls :
    /\ ntohl(calls[i].call.buffer.timestamp) = calls[i].call.last_ts
    /\ ntohs(calls[i].call.buffer.seq_number) = calls[i].call.last_seq
    /\ ntohl(calls[i].entry.timestamp) = calls[i].timestamp
    /\ ntohs(calls[i].entry.seq_number) = calls[i].seq_number
    /\ ntohl(calls[i].exit.timestamp) = calls[i].timestamp
    /\ ntohs(calls[i].exit.seq_number) = calls[i].seq_number

\* one packet was relayed to two viewers in a row, and the second viewer was
\* handed a header that differs from the original one
C1_Witness ==
  /\ Len(calls) = 2
  /\ calls[1].viewer # calls[2].viewer
  /\ calls[2].call.fn = "relay_rtp"
  /\ calls[1].call.buffer.seq_number # calls[1].entry.seq_number
  /\ calls[2].call.buffer.seq_number # calls[2].entry.seq_number

\* C2: a packet that carries SVC information is handed to relay_rtp only if
\* its spatial layer is not above the layer the viewer has achieved at that
\* moment
C2_NoLayerAboveAchieved ==
  \A i \in RtpCalls :
    calls[i].call.svc => calls[i].call.spatial_layer <= calls[i].call.achieved

\* a helper relayed a packet of a layer above the one its viewer achieved
C2_Witness ==
  \E i \in RtpCalls :
    /\ calls[i].via = "helper"
    /\ calls[i].call.svc
    /\ calls[i].call.spatial_layer > calls[i].call.achieved

\* C3: a step raises a viewer's achieved spatial layer only if the packet it
\* worked on is a keyframe, and never above the viewer's target layer
C3_UpscaleOnlyOnKeyframe ==
  [][\A s \in DOMAIN sessions :
       sessions'[s].spatial_layer > sessions[s].spatial_layer =>
         /\ handled'.keyframe
         /\ sessions'[s].spatial_layer <= sessions'[s].target_spatial_layer]_vars

\* a keyframe took the viewer to the top layer, and the packet was relayed
C3_Witness ==
  /\ handled.keyframe
  /\ sessions["s1"].spatial_layer = 2
  /\ sessions["s1"].last_spatial_layer[3] = now
  /\ RtpCalls # {}

\* C6: no packet the mountpoint received while it was disabled is handed to
\* relay_rtp or relay_data while the mountpoint is still disabled
C6_NothingRelayedWhileDisabled ==
  \A i \in 1..Len(calls) :
    calls[i].recv_enabled \/ mountpoints["mp1"].enabled

\* setup_media replayed a keyframe packet received while disabled
C6_Witness ==
  \E i \in 1..Len(calls) :
    /\ calls[i].via = "replay"
    /\ ~calls[i].recv_enabled
    /\ ~mountpoints["mp1"].enabled

DeliveredIds(s) == [i \in 1..Len(delivered[s]) |-> delivered[s][i].id]

\* C7 as stated: no audio packet ingested before the viewer started is
\* relayed to it, and the packets relayed to it are in arrival order, each
\* once
C7_NothingFromBeforeStart ==
  \A s \in DOMAIN delivered :
    /\ \A i \in 1..Len(delivered[s]) : delivered[s][i].id > eligible[s].since
    /\ \A i, j \in 1..Len(delivered[s]) : i < j => delivered[s][i].id < delivered[s][j].id

\* C7, amended: with direct forwarding the audio packets relayed to a viewer
\* since its setup_media are exactly those fanned out while it was started,
\* unpaused and audio-enabled, in arrival order; through helpers they are
\* fanned-out packets in arrival order, each at most once; and the rewritten
\* sequence numbers of two successive ones of the same SSRC differ by what
\* the mountpoint's own sequence numbers differ by
C7_RelayedExactlyOnceInOrder ==
  \A s \in DOMAIN delivered :
    /\ mountpoints["mp1"].helper_threads = 0 => DeliveredIds(s) = eligible[s].ids
    /\ \A i, j \in 1..Len(delivered[s]) : i < j => delivered[s][i].id < delivered[s][j].id
    /\ \A i \in 1..(Len(delivered[s]) - 1) :
         delivered[s][i].ssrc = delivered[s][i + 1].ssrc =>
           (delivered[s][i + 1].seq - delivered[s][i].seq) % Seq16
             = (delivered[s][i + 1].seq_number - delivered[s][i].seq_number) % Seq16

\* a viewer that started after the first packet was relayed the second and
\* the third one directly, with consecutive sequence numbers
C7_Witness ==
  /\ mountpoints["mp1"].helper_threads = 0
  /\ eligible["s1"].since = 1
  /\ DeliveredIds("s1") = <<2, 3>>
  /\ delivered["s1"][2].seq = (delivered["s1"][1].seq + 1) % Seq16

(***************************************************************************)
(* Viewers that come, go and switch, and mountpoints that are destroyed    *)
(***************************************************************************)
\* the helper "switch" picks for the viewer: the loop starts from viewers = 0,
\* so it only ever takes a helper without viewers, the last one; 0 stands
\* for the NULL it is left with otherwise
RECURSIVE SwitchHelper(_, _, _, _)
SwitchHelper(threads, h, helper, viewers) ==
  IF h > Len(threads) THEN helper
  ELSE IF threads[h].num_viewers = 0 \/ threads[h].num_viewers < viewers
       THEN SwitchHelper(threads, h + 1, h, threads[h].num_viewers)
       ELSE SwitchHelper(threads, h + 1, helper, viewers)

\* "Unsubscribe from the previous mountpoint": the viewers and the helpers
\* of the old mountpoint without the session
Unsubscribed(mp, s) ==
  [mp EXCEPT !.viewers = RemoveAll(@, s),
             !.threads = IF mp.helper_threads > 0 THEN RemoveFromHelper(@, 1, s) ELSE @]

\* "Subscribe to the new one": the viewer is appended, and handed to the
\* helper picked (none when the mountpoint has no helpers)
Subscribed(mp, s, helper) ==
  LET withViewer == [mp EXCEPT !.viewers = Append(@, s)]
  IN IF helper = 0 THEN withViewer
     ELSE [withViewer EXCEPT !.threads[helper].viewers = Append(@, s),
                             !.threads[helper].num_viewers = @ + 1]

\* the "switch" request. When every helper of the new mountpoint has a
\* viewer the helper picked is NULL and is dereferenced: the process
\* crashes, or goes on without having touched a helper
Switch(s, m, outcome) ==
  LET session == sessions[s]
      old == session.mountpoint
      mp == mountpoints[m]
      aimed == IF mp.source.svc
               THEN [session EXCEPT !.spatial_layer = -1, !.target_spatial_layer = 2,
                                    !.temporal_layer = -1, !.target_temporal_layer = 2]
               ELSE session
      left == [mountpoints EXCEPT ![old] = Unsubscribed(@, s)]
      helper == SwitchHelper(left[m].threads, 1, 0, 0)
      null == left[m].helper_threads > 0 /\ helper = 0
  IN /\ pc.process = "running"
     /\ old # NoMountpoint
     /\ mp.registered
     /\ outcome = "crash" => null
     /\ mountpoints' = [left EXCEPT ![m] = Subscribed(@, s, helper)]
     /\ sessions' = [sessions EXCEPT ![s] = [aimed EXCEPT !.mountpoint = m, !.paused = FALSE]]
     /\ pc' = IF null
              THEN [pc EXCEPT !.ub = TRUE,
                              !.process = IF outcome = "crash" THEN "crashed" ELSE @]
              ELSE pc
     /\ calls' = << >>
     /\ handled' = Nothing
     /\ UNCHANGED << now, sender, delivered, eligible, alloc, locks >>

\* "Notify users this mountpoint is done": what the ingestion thread does to
\* the viewers when it leaves its loop; the helpers' lists stay as they are
Kicked(m, session) ==
  IF session.mountpoint # m THEN session
  ELSE [session EXCEPT !.stopping = TRUE, !.started = FALSE,
                       !.paused = FALSE, !.mountpoint = NoMountpoint]

RECURSIVE ExitCleanup(_, _, _)
ExitCleanup(m, viewers, sess) ==
  IF viewers = << >> THEN sess
  ELSE LET s == Head(viewers)
       IN ExitCleanup(m, RemoveAll(viewers, s), [sess EXCEPT ![s] = Kicked(m, @)])

\* the "destroy" request, start to end: the mountpoint leaves the registry,
\* janus_streaming_mountpoint_destroy stops and joins the ingestion thread,
\* which cleans up, and destroys the helpers; the viewers' loop of the
\* request then finds no viewer left
Destroy(m) ==
  /\ pc.process = "running"
  /\ mountpoints[m].registered
  /\ mountpoints' = [mountpoints EXCEPT
       ![m].registered = FALSE, ![m].destroyed = TRUE, ![m].thread = "joined",
       ![m].viewers = << >>,
       ![m].threads = [h \in DOMAIN @ |-> [@[h] EXCEPT !.destroyed = TRUE]]]
  /\ sessions' = ExitCleanup(m, mountpoints[m].viewers, sessions)
  /\ calls' = << >>
  /\ handled' = Nothing
  /\ UNCHANGED << now, sender, delivered, eligible, aside >>

\* two mountpoints, with one and with two helpers, and two sessions
InitViewers ==
  /\ mountpoints = [m \in {"mp1", "mp2"} |->
                      NewMountpoint([BaseConfig EXCEPT !.threads = IF m = "mp1" THEN 1 ELSE 2])]
  /\ sessions = [s \in Sessions |-> NewSession]
  /\ now = SvcFallback
  /\ sender = [n |-> 0, seq |-> FirstSeq, ts |-> 0]
  /\ calls = << >>
  /\ handled = Nothing
  /\ delivered = << >>
  /\ eligible = << >>
  /\ alloc = NewAlloc
  /\ pc = [process |-> "running", ub |-> FALSE]
  /\ locks = NoLocks

NextViewers ==
  \/ \E s \in Sessions, m \in DOMAIN mountpoints, do_restart \in BOOLEAN :
       pc.process = "running" /\ Watch(s, m, do_restart, TRUE, TRUE, 2, 2)
  \/ \E s \in Sessions : pc.process = "running" /\ janus_streaming_setup_media(s)
  \/ \E s \in Sessions : pc.process = "running" /\ Hangup(s)
  \/ \E s \in Sessions, m \in DOMAIN mountpoints, outcome \in {"crash", "go on"} :
       Switch(s, m, outcome)
  \/ \E m \in DOMAIN mountpoints : Destroy(m)

SpecViewers == InitViewers /\ [][NextViewers]_vars

\* how often the session is in the list
Occurrences(list, s) == Cardinality({ i \in 1..Len(list) : list[i] = s })

\* C4: as long as no request ran into undefined behaviour, on every
\* registered mountpoint with helpers each viewer of the mountpoint is in
\* exactly one helper's list, once; no helper holds a session that is not a
\* viewer of the mountpoint; and num_viewers is the length of the list
C4_HelpersPartitionViewers ==
  ~pc.ub =>
    \A m \in DOMAIN mountpoints :
      LET mp == mountpoints[m]
      IN mp.registered /\ mp.helper_threads > 0 =>
           /\ \A s \in SeqToSet(mp.viewers) :
                \E h \in DOMAIN mp.threads :
                  /\ Occurrences(mp.threads[h].viewers, s) = 1
                  /\ \A g \in DOMAIN mp.threads \ {h} : s \notin SeqToSet(mp.threads[g].viewers)
           /\ \A h \in DOMAIN mp.threads :
                /\ SeqToSet(mp.threads[h].viewers) \subseteq SeqToSet(mp.viewers)
                /\ mp.threads[h].num_viewers = Len(mp.threads[h].viewers)

\* after a "watch" with restart for a mountpoint the session was not
\* watching and a "switch" to it, the session is in both of its helpers
C4_Witness ==
  /\ ~pc.ub
  /\ mountpoints["mp2"].registered
  /\ mountpoints["mp2"].viewers = <<"s1", "s1">>
  /\ mountpoints["mp2"].threads[1].viewers = <<"s1">>
  /\ mountpoints["mp2"].threads[2].viewers = <<"s1">>
  /\ sessions["s1"].mountpoint = "mp2"

\* C15: as long as no request ran into undefined behaviour, a session is in
\* the viewer list of a mountpoint exactly when that mountpoint is its
\* session->mountpoint, and it is there once: so it is in the list of at most
\* one mountpoint
C15_ViewerOfItsMountpoint ==
  ~pc.ub =>
    \A s \in DOMAIN sessions, m \in DOMAIN mountpoints :
      /\ Occurrences(mountpoints[m].viewers, s) <= 1
      /\ s \in SeqToSet(mountpoints[m].viewers) <=> sessions[s].mountpoint = m

\* after a "watch" for mp1 and a "watch" with restart for mp2 the session is
\* a viewer of both while its mountpoint is mp1
C15_Witness ==
  /\ ~pc.ub
  /\ mountpoints["mp1"].registered /\ mountpoints["mp2"].registered
  /\ mountpoints["mp1"].viewers = <<"s1">>
  /\ mountpoints["mp2"].viewers = <<"s1">>
  /\ sessions["s1"].mountpoint = "mp1"

\* C16: a request that appends a session to the viewers of a mountpoint
\* with helpers appends it to one helper, whose num_viewers was the least
\* of the mountpoint's helpers, and leaves the other helpers as they were
C16_AttachedToLeastLoaded ==
  [][\A m \in DOMAIN mountpoints, s \in DOMAIN sessions :
       LET before == mountpoints[m]
           after == mountpoints'[m]
       IN before.helper_threads > 0 /\ after.viewers = Append(before.viewers, s)
          => \E h \in DOMAIN before.threads :
               /\ after.threads[h].viewers = Append(before.threads[h].viewers, s)
               /\ after.threads[h].num_viewers = before.threads[h].num_viewers + 1
               /\ \A k \in DOMAIN before.threads :
                    before.threads[h].num_viewers <= before.threads[k].num_viewers
               /\ \A k \in DOMAIN before.threads \ {h} :
                    after.threads[k] = before.threads[k]]_vars

\* a "switch" to a mountpoint whose helpers all had a viewer went on: the
\* session is a viewer of the mountpoint and no helper serves it
C16_Witness ==
  /\ pc.ub /\ pc.process = "running"
  /\ sessions["s2"].mountpoint = "mp1"
  /\ mountpoints["mp1"].viewers = <<"s1", "s2">>
  /\ mountpoints["mp1"].threads[1].viewers = <<"s1">>
  /\ mountpoints["mp1"].threads[1].num_viewers = 1

(***************************************************************************)
(* The keyframe buffer, statement by statement                             *)
(***************************************************************************)
\* a mutex is the set of the threads inside it
MutexAlwaysFree(holders) == TRUE

MutexFree(holders) == holders = {}

janus_mutex_lock(mutex, t) ==
  /\ MutexFree(locks[mutex])
  /\ locks' = [locks EXCEPT ![mutex] = @ \cup {t}]

\* an unlock that leaves the mutex with its holder
MutexKept(mutex, t) == UNCHANGED locks

janus_mutex_unlock(mutex, t) == locks' = [locks EXCEPT ![mutex] = @ \ {t}]

\* a keyframe list is known by the id of its first packet; 0 is NULL
KfId(list) == IF list = << >> THEN 0 ELSE list[1].id

\* the ids of the packets of a list
KfIds(list) == [i \in 1..Len(list) |-> list[i].id]

\* f with k mapped to v
With(f, k, v) == [x \in DOMAIN f \cup {k} |-> IF x = k THEN v ELSE f[x]]

\* a setup_media thread: where it is, its GList pointer temp (the list it
\* points into and the position, 0 for NULL), the packets it has replayed,
\* the list that was the latest keyframe when it began and the lists that
\* became the latest keyframe since
NoSetup == [at |-> "idle", list |-> 0, temp |-> 0, replayed |-> << >>,
            previous |-> 0, since |-> {}]

\* a step that makes no gateway call and leaves the sessions alone
Quiet ==
  /\ calls' = << >>
  /\ handled' = Nothing
  /\ UNCHANGED << sessions, now, sender, delivered, eligible, alloc >>

\* a video datagram arrives: the ingestion thread notes when it came and
\* decides what the keyframe buffer needs, writing temp_ts outside the mutex
KfReceive(m, newframe, keyframe) ==
  LET source == mountpoints[m].source
      kf == source.keyframe
      raw == Header(SourceSsrc, SentTs(newframe), sender.seq, 0, keyframe)
      ts == ntohl(raw.timestamp)
      branch == IF kf.temp_ts > 0 /\ ts # kf.temp_ts THEN "promote"
                ELSE IF ts = kf.temp_ts THEN "store"
                ELSE IF raw.keyframe THEN "start"
                ELSE "relay"
  IN /\ pc.relay.at = "poll"
     /\ sender.n < KfPackets
     /\ mountpoints' = [mountpoints EXCEPT
          ![m].source.last_received_video = now,
          ![m].source.v_last_ssrc = SourceSsrc,
          ![m].source.keyframe.temp_ts =
             IF branch = "promote" THEN 0 ELSE IF branch = "start" THEN ts ELSE @]
     /\ pc' = [pc EXCEPT !.relay = [at |-> IF branch = "start" THEN "store" ELSE branch,
                                    raw |-> raw, newframe |-> newframe]]
     /\ UNCHANGED locks
     /\ Quiet

\* janus_mutex_lock(&source->keyframe.mutex) of the ingestion thread
KfLock(m) ==
  /\ pc.relay.at \in {"promote", "store"}
  /\ janus_mutex_lock("keyframe", "relay")
  /\ pc' = [pc EXCEPT !.relay.at = IF @ = "promote" THEN "free" ELSE "append"]
  /\ UNCHANGED mountpoints
  /\ Quiet

\* "get rid of the old one": the packets of the latest keyframe are freed
KfFree(m) ==
  LET kf == mountpoints[m].source.keyframe
  IN /\ pc.relay.at = "free"
     /\ pc' = [pc EXCEPT !.relay.at = "assign",
                         !.freed = IF kf.latest_keyframe # << >>
                                   THEN @ \cup {KfId(kf.latest_keyframe)} ELSE @]
     /\ UNCHANGED << mountpoints, locks >>
     /\ Quiet

\* "and use this from now on"
KfAssign(m) ==
  LET kf == mountpoints[m].source.keyframe
      id == KfId(kf.temp_keyframe)
  IN /\ pc.relay.at = "assign"
     /\ mountpoints' = [mountpoints EXCEPT
          ![m].source.keyframe.latest_keyframe = kf.temp_keyframe,
          ![m].source.keyframe.temp_keyframe = << >>]
     /\ pc' = [pc EXCEPT
          !.relay.at = "unlock",
          !.lists = With(@, id, KfIds(kf.temp_keyframe)),
          !.setup = [s \in DOMAIN @ |->
                       IF @[s].at \in {"idle", "done"} THEN @[s]
                       ELSE [@[s] EXCEPT !.since = @ \cup {id}]]]
     /\ UNCHANGED locks
     /\ Quiet

\* a copy of the datagram is appended to the keyframe being saved
KfAppend(m) ==
  LET mp == mountpoints[m]
      kf == mp.source.keyframe
  IN /\ pc.relay.at = "append"
     /\ mountpoints' = [mountpoints EXCEPT ![m].source.keyframe.temp_keyframe =
          Append(@, KeyframePacket(pc.relay.raw, sender.n + 1, mp.enabled,
                                   mp.source.svc, NoSvcInfo, kf.temp_ts))]
     /\ pc' = [pc EXCEPT !.relay.at = "unlock"]
     /\ UNCHANGED locks
     /\ Quiet

\* janus_mutex_unlock(&source->keyframe.mutex) of the ingestion thread
KfUnlock(m) ==
  /\ pc.relay.at = "unlock"
  /\ janus_mutex_unlock("keyframe", "relay")
  /\ pc' = [pc EXCEPT !.relay.at = "relay"]
  /\ UNCHANGED mountpoints
  /\ Quiet

\* the rest of the iteration: the packet is relayed unless the mountpoint
\* is disabled
KfRelay(m, ext) ==
  LET mp == mountpoints[m]
      source == mp.source
      u == janus_rtp_header_update(pc.relay.raw, source.context, TRUE, now)
      updated == [mp EXCEPT !.source.context = u.context]
      packet == [source.packet EXCEPT
                   !.id = sender.n + 1, !.recv_enabled = mp.enabled,
                   !.wire_svc = source.svc, !.wire_info = NoSvcInfo,
                   !.data = u.header, !.is_rtp = TRUE, !.is_video = TRUE,
                   !.is_keyframe = FALSE, !.simulcast = source.simulcast,
                   !.svc = source.svc,
                   !.timestamp = ntohl(u.header.timestamp),
                   !.seq_number = ntohs(u.header.seq_number)]
  IN /\ pc.relay.at = "relay"
     /\ IF ~mp.enabled THEN Ingested(m, mp, TRUE, pc.relay.newframe)
        ELSE Relayed(m, updated, packet, pc.relay.newframe, ext)
     /\ pc' = [pc EXCEPT !.relay = [at |-> "poll"]]

\* janus_streaming_setup_media up to the keyframe mutex: the context is
\* reset, and without a mountpoint that is all
SetupBegin(s) ==
  LET session == sessions[s]
      m == session.mountpoint
  IN /\ pc.setup[s].at = "idle"
     /\ ~session.started
     /\ sessions' = [sessions EXCEPT ![s].context = janus_rtp_switching_context_reset]
     /\ pc' = IF m = NoMountpoint THEN pc
              ELSE [pc EXCEPT !.setup[s] =
                      [NoSetup EXCEPT !.at = "lock",
                         !.previous = KfId(mountpoints[m].source.keyframe.latest_keyframe)]]
     /\ calls' = << >>
     /\ handled' = Nothing
     /\ UNCHANGED << mountpoints, now, sender, delivered, eligible, alloc, locks >>

\* janus_mutex_lock(&source->keyframe.mutex); GList *temp = latest_keyframe
ReplayLock(s) ==
  LET latest == mountpoints[sessions[s].mountpoint].source.keyframe.latest_keyframe
  IN /\ pc.setup[s].at = "lock"
     /\ janus_mutex_lock("keyframe", s)
     /\ pc' = [pc EXCEPT !.setup[s].at = "walk",
                         !.setup[s].list = KfId(latest),
                         !.setup[s].temp = IF latest = << >> THEN 0 ELSE 1]
     /\ UNCHANGED mountpoints
     /\ Quiet

\* one turn of the while(temp) loop: temp->data is relayed to the session
\* and temp moves on. A list that was freed in the meantime is a dangling
\* pointer: the thread crashes, reads garbage and stops, or reads what
\* took the memory's place, the list that is now the latest keyframe
ReplayNext(s, outcome) ==
  LET t == pc.setup[s]
      m == sessions[s].mountpoint
      latest == mountpoints[m].source.keyframe.latest_keyframe
      dangling == t.list \in pc.freed
      i == IF t.temp <= Len(latest) THEN t.temp ELSE Len(latest)
      pkt == latest[i]
      Served(r) ==
        /\ sessions' = [sessions EXCEPT ![s] = r.session]
        /\ mountpoints' = [mountpoints EXCEPT
             ![m].source.keyframe.latest_keyframe[i].data = r.data]
        /\ calls' = TagCalls(r.calls, s, pkt, r.data, "replay")
  IN /\ t.at = "walk" /\ t.temp # 0
     /\ dangling <=> outcome # "read"
     /\ outcome = "reused" => latest # << >> /\ KfId(latest) \notin pc.freed
     /\ IF outcome \in {"read", "reused"}
        THEN /\ Served(janus_streaming_relay_rtp_packet(sessions[s], pkt, now, TRUE, 0))
             /\ pc' = [pc EXCEPT
                  !.setup[s].replayed = Append(@, [list |-> KfId(latest), id |-> pkt.id]),
                  !.setup[s].list = KfId(latest),
                  !.setup[s].temp = IF i < Len(latest) THEN i + 1 ELSE 0]
        ELSE /\ UNCHANGED << sessions, mountpoints >>
             /\ calls' = << >>
             /\ pc' = [pc EXCEPT
                  !.setup[s].replayed = Append(@, [list |-> t.list, id |-> 0]),
                  !.setup[s].temp = 0,
                  !.setup[s].at = IF outcome = "crash" THEN "crashed" ELSE @]
     /\ handled' = Nothing
     /\ UNCHANGED << now, sender, delivered, eligible, alloc, locks >>

\* the end of the list: janus_mutex_unlock(&source->keyframe.mutex)
ReplayUnlock(s) ==
  /\ pc.setup[s].at = "walk" /\ pc.setup[s].temp = 0
  /\ janus_mutex_unlock("keyframe", s)
  /\ pc' = [pc EXCEPT !.setup[s].at = "unlocked"]
  /\ UNCHANGED mountpoints
  /\ Quiet

\* g_atomic_int_set(&session->started, 1)
SetupEnd(s) ==
  /\ pc.setup[s].at = "unlocked"
  /\ sessions' = [sessions EXCEPT ![s].started = TRUE]
  /\ pc' = [pc EXCEPT !.setup[s].at = "done"]
  /\ calls' = << >>
  /\ handled' = Nothing
  /\ UNCHANGED << mountpoints, now, sender, delivered, eligible, alloc, locks >>

\* the sessions of the keyframe specification
KfViewers == {"s1"}

\* a video mountpoint that buffers keyframes, its ingestion thread in poll,
\* and sessions that have not asked for anything yet
InitKf ==
  /\ mountpoints = [m \in {"mp1"} |->
       NewMountpoint([BaseConfig EXCEPT !.audio = FALSE, !.video = TRUE, !.bufferkf = TRUE])]
  /\ sessions = [s \in KfViewers |-> NewSession]
  /\ now = SvcFallback
  /\ sender = [n |-> 0, seq |-> FirstSeq, ts |-> 0]
  /\ calls = << >>
  /\ handled = Nothing
  /\ delivered = << >>
  /\ eligible = << >>
  /\ alloc = NewAlloc
  /\ pc = [relay |-> [at |-> "poll"], setup |-> [s \in KfViewers |-> NoSetup],
           freed |-> {}, lists |-> << >>]
  /\ locks = [mutex \in {"keyframe"} |-> {}]

NextKf ==
  \/ \E newframe, keyframe \in BOOLEAN : KfReceive("mp1", newframe, keyframe)
  \/ KfLock("mp1")
  \/ KfFree("mp1")
  \/ KfAssign("mp1")
  \/ KfAppend("mp1")
  \/ KfUnlock("mp1")
  \/ \E ext \in Exts(mountpoints["mp1"]) : KfRelay("mp1", ext)
  \/ \E s \in DOMAIN sessions : Watch(s, "mp1", FALSE, TRUE, TRUE, 2, 2)
  \/ \E s \in DOMAIN sessions : SetupBegin(s)
  \/ \E s \in DOMAIN sessions : ReplayLock(s)
  \/ \E s \in DOMAIN sessions, outcome \in {"read", "crash", "garbage", "reused"} : ReplayNext(s, outcome)
  \/ \E s \in DOMAIN sessions : ReplayUnlock(s)
  \/ \E s \in DOMAIN sessions : SetupEnd(s)

SpecKf == InitKf /\ [][NextKf]_vars

\* C5: whatever the ingestion thread does to the keyframe buffer while a
\* session is in janus_streaming_setup_media, the packets replayed to the
\* session are packets of one keyframe list only, one that was the latest
\* keyframe when setup_media began or became it since, in the list's order
\* and without a packet read from freed memory; once the replay is over
\* they are all the packets of that list, and nothing is replayed only if
\* there was no keyframe when setup_media began
C5_ReplayIsOneWholeKeyframe ==
  \A s \in DOMAIN pc.setup :
    LET t == pc.setup[s]
        r == t.replayed
        over == t.at \in {"unlocked", "done"}
    IN /\ t.at # "crashed"
       /\ r = << >> /\ over => t.previous = 0
       /\ r # << >> =>
            LET l == r[1].list
            IN /\ l \in (({t.previous} \cup t.since) \ {0})
               /\ l \in DOMAIN pc.lists
               /\ Len(r) <= Len(pc.lists[l])
               /\ \A i \in 1..Len(r) : r[i] = [list |-> l, id |-> pc.lists[l][i]]
               /\ over => Len(r) = Len(pc.lists[l])

\* a session was replayed a keyframe of more than one packet that replaced,
\* while the session was in setup_media, the keyframe there was before
C5_Witness ==
  \E s \in DOMAIN pc.setup :
    LET t == pc.setup[s]
    IN /\ t.at = "done"
       /\ t.previous # 0
       /\ Len(t.replayed) > 1
       /\ t.replayed[1].list \in t.since

(***************************************************************************)
(* Destroying a mountpoint: the interrupt pipe, the join and the mutexes   *)
(***************************************************************************)
\* the registry mutex; a mountpoint's and a session's mutex go by their ids
Registry == "mountpoints_mutex"

\* a step of one thread that touches neither the media nor the port allocator
Step ==
  /\ calls' = << >>
  /\ handled' = Nothing
  /\ UNCHANGED << now, sender, delivered, eligible, alloc >>

\* the ingestion thread tests its while condition: out of the loop once the
\* mountpoint is destroyed, into the next poll otherwise
RelayLoop(m) ==
  /\ pc.relay.at = "loop"
  /\ pc' = IF mountpoints[m].destroyed
           THEN [pc EXCEPT !.relay.at = "notify"]
           ELSE [pc EXCEPT !.relay.at = "poll",
                           !.late = IF pc.reported THEN TRUE ELSE @]
  /\ UNCHANGED << mountpoints, sessions, locks >>
  /\ Step

\* poll returns: nothing within the timeout, or the descriptors that are
\* readable, the pipe among them as long as it holds a byte
RelayPoll(m, audio) ==
  LET ready == (IF audio THEN {"audio"} ELSE {}) \cup (IF pc.pipe > 0 THEN {"pipe"} ELSE {})
  IN /\ pc.relay.at = "poll"
     /\ audio => mountpoints[m].audio /\ sender.n < MaxPackets
     /\ pc' = [pc EXCEPT !.relay.at = IF ready = {} THEN "loop" ELSE "revents",
                         !.relay.revents = ready,
                         !.reported = @ \/ "pipe" \in ready]
     /\ UNCHANGED << mountpoints, sessions, locks >>
     /\ Step

\* the audio descriptor comes first in fds: its datagram is handled, the
\* fan-out under the mountpoint's mutex
RelayAudio(m, ext) ==
  /\ pc.relay.at = "revents"
  /\ "audio" \in pc.relay.revents
  /\ MutexFree(locks[m])
  /\ IngestAudio(m, TRUE, SourceSsrc, TRUE, 0, ext)
  /\ pc' = [pc EXCEPT !.relay.revents = @ \ {"audio"}]

\* the pipe's descriptor: "We're done here", the byte is read and the for
\* loop left; with nothing more to look at the for loop ends as well
RelayPipe(m) ==
  /\ pc.relay.at = "revents"
  /\ "audio" \notin pc.relay.revents
  /\ pc' = [pc EXCEPT !.relay.at = "loop", !.relay.revents = {},
                      !.pipe = IF "pipe" \in pc.relay.revents THEN 0 ELSE @]
  /\ UNCHANGED << mountpoints, sessions, locks >>
  /\ Step

\* "Notify users this mountpoint is done": the mountpoint's mutex is taken
RelayNotify(m) ==
  /\ pc.relay.at = "notify"
  /\ janus_mutex_lock(m, "relay")
  /\ pc' = [pc EXCEPT !.relay.at = "viewer"]
  /\ UNCHANGED << mountpoints, sessions >>
  /\ Step

\* the first viewer's session mutex is taken
RelayViewer(m) ==
  /\ pc.relay.at = "viewer"
  /\ mountpoints[m].viewers # << >>
  /\ janus_mutex_lock(Head(mountpoints[m].viewers), "relay")
  /\ pc' = [pc EXCEPT !.relay.at = "kick"]
  /\ UNCHANGED << mountpoints, sessions >>
  /\ Step

\* the viewer is told and taken off the list, its mutex released
RelayKick(m) ==
  LET s == Head(mountpoints[m].viewers)
  IN /\ pc.relay.at = "kick"
     /\ sessions' = [sessions EXCEPT ![s] = Kicked(m, @)]
     /\ mountpoints' = [mountpoints EXCEPT ![m].viewers = RemoveAll(@, s)]
     /\ janus_mutex_unlock(s, "relay")
     /\ pc' = [pc EXCEPT !.relay.at = "viewer"]
     /\ Step

\* no viewer left: the mutex is released and the thread returns
RelayExit(m) ==
  /\ pc.relay.at = "viewer"
  /\ mountpoints[m].viewers = << >>
  /\ janus_mutex_unlock(m, "relay")
  /\ mountpoints' = [mountpoints EXCEPT ![m].thread = "exited"]
  /\ pc' = [pc EXCEPT !.relay.at = "exited"]
  /\ UNCHANGED sessions
  /\ Step

RelayThread(m) ==
  \/ RelayLoop(m)
  \/ \E audio \in BOOLEAN : RelayPoll(m, audio)
  \/ \E ext \in Exts(mountpoints[m]) : RelayAudio(m, ext)
  \/ RelayPipe(m)
  \/ RelayNotify(m)
  \/ RelayViewer(m)
  \/ RelayKick(m)
  \/ RelayExit(m)

\* the "destroy" request takes the registry mutex
DestroyBegin(m) ==
  /\ pc.destroy.at = "idle"
  /\ janus_mutex_lock(Registry, "destroy")
  /\ pc' = IF mountpoints[m].registered THEN [pc EXCEPT !.destroy.at = "remove"]
           ELSE [pc EXCEPT !.destroy.at = "unlock"]
  /\ UNCHANGED << mountpoints, sessions >>
  /\ Step

\* g_hash_table_remove calls janus_streaming_mountpoint_destroy, which
\* first marks the mountpoint destroyed
DestroyRemove(m) ==
  /\ pc.destroy.at = "remove"
  /\ mountpoints' = [mountpoints EXCEPT ![m].registered = FALSE, ![m].destroyed = TRUE]
  /\ pc' = [pc EXCEPT !.destroy.at = "interrupt"]
  /\ UNCHANGED << sessions, locks >>
  /\ Step

\* "interrupt the poll": a byte is written to the pipe
DestroyInterrupt(m) ==
  /\ pc.destroy.at = "interrupt"
  /\ pc' = [pc EXCEPT !.destroy.at = "join", !.pipe = @ + 1]
  /\ UNCHANGED << mountpoints, sessions, locks >>
  /\ Step

\* g_thread_join returns once the ingestion thread has returned; the
\* helpers are destroyed
DestroyJoin(m) ==
  /\ pc.destroy.at = "join"
  /\ pc.relay.at = "exited"
  /\ mountpoints' = [mountpoints EXCEPT
       ![m].thread = "joined",
       ![m].threads = [h \in DOMAIN @ |-> [@[h] EXCEPT !.destroyed = TRUE]]]
  /\ pc' = [pc EXCEPT !.destroy.at = "kick"]
  /\ UNCHANGED << sessions, locks >>
  /\ Step

\* "Should we kick the current viewers as well?": under the mountpoint's
\* mutex, the viewers still listed are told and taken off the list and off
\* the helpers
DestroyKick(m) ==
  LET mp == mountpoints[m]
      gone == { v \in SeqToSet(mp.viewers) : sessions[v].mountpoint = m }
  IN /\ pc.destroy.at = "kick"
     /\ MutexFree(locks[m])
     /\ sessions' = ExitCleanup(m, mp.viewers, sessions)
     /\ mountpoints' = [mountpoints EXCEPT
          ![m].viewers = << >>,
          ![m].threads = [h \in DOMAIN @ |->
             [@[h] EXCEPT !.viewers = SelectSeq(@, LAMBDA v : v \notin gone),
                          !.num_viewers = Len(SelectSeq(mp.threads[h].viewers,
                                                        LAMBDA v : v \notin gone))]]]
     /\ pc' = [pc EXCEPT !.destroy.at = "unlock"]
     /\ UNCHANGED locks
     /\ Step

\* the registry mutex is released and the request answered
DestroyUnlock(m) ==
  /\ pc.destroy.at = "unlock"
  /\ janus_mutex_unlock(Registry, "destroy")
  /\ pc' = [pc EXCEPT !.destroy.at = "done"]
  /\ UNCHANGED << mountpoints, sessions >>
  /\ Step

\* what a "destroy" request does once it has begun
DestroyRequest(m) ==
  \/ DestroyRemove(m)
  \/ DestroyInterrupt(m)
  \/ DestroyJoin(m)
  \/ DestroyKick(m)
  \/ DestroyUnlock(m)

\* the handler thread takes up a "switch" request: the session's mutex is
\* taken, and released at once when the session watches nothing
SwitchBegin(s, m) ==
  /\ pc.handler.at = "idle"
  /\ MutexFree(locks[s])
  /\ IF sessions[s].mountpoint = NoMountpoint
     THEN UNCHANGED << pc, locks >>
     ELSE /\ janus_mutex_lock(s, "handler")
          /\ pc' = [pc EXCEPT !.handler = [at |-> "lookup", session |-> s,
                                           oldmp |-> sessions[s].mountpoint, mp |-> m]]
  /\ UNCHANGED << mountpoints, sessions >>
  /\ Step

\* the new mountpoint is looked up under the registry mutex; found, the
\* session is paused and detached from its mountpoint, and both mutexes
\* are released
SwitchLookup ==
  LET h == pc.handler
      session == sessions[h.session]
      aimed == IF mountpoints[h.mp].source.svc
               THEN [session EXCEPT !.spatial_layer = -1, !.target_spatial_layer = 2,
                                    !.temporal_layer = -1, !.target_temporal_layer = 2]
               ELSE session
  IN /\ h.at = "lookup"
     /\ MutexFree(locks[Registry])
     /\ janus_mutex_unlock(h.session, "handler")
     /\ IF mountpoints[h.mp].registered
        THEN /\ sessions' = [sessions EXCEPT ![h.session] =
                  [aimed EXCEPT !.paused = TRUE, !.mountpoint = NoMountpoint]]
             /\ pc' = [pc EXCEPT !.handler.at = "leave"]
        ELSE /\ UNCHANGED sessions
             /\ pc' = [pc EXCEPT !.handler = [at |-> "idle"]]
     /\ UNCHANGED mountpoints
     /\ Step

\* "Unsubscribe from the previous mountpoint", under its mutex
SwitchLeave ==
  LET h == pc.handler
  IN /\ h.at = "leave"
     /\ MutexFree(locks[h.oldmp])
     /\ mountpoints' = [mountpoints EXCEPT ![h.oldmp] = Unsubscribed(@, h.session)]
     /\ pc' = [pc EXCEPT !.handler.at = "enter"]
     /\ UNCHANGED << sessions, locks >>
     /\ Step

\* "Subscribe to the new one": first the mountpoint's mutex
SwitchEnter ==
  /\ pc.handler.at = "enter"
  /\ janus_mutex_lock(pc.handler.mp, "handler")
  /\ pc' = [pc EXCEPT !.handler.at = "subscribe"]
  /\ UNCHANGED << mountpoints, sessions >>
  /\ Step

\* then the session's mutex, under which the viewer is appended
SwitchSubscribe ==
  LET h == pc.handler
      mp == mountpoints[h.mp]
      helper == SwitchHelper(mp.threads, 1, 0, 0)
  IN /\ h.at = "subscribe"
     /\ MutexFree(locks[h.session])
     /\ mountpoints' = [mountpoints EXCEPT ![h.mp] = Subscribed(@, h.session, helper)]
     /\ sessions' = [sessions EXCEPT ![h.session].mountpoint = h.mp,
                                     ![h.session].paused = FALSE]
     /\ janus_mutex_unlock(h.mp, "handler")
     /\ pc' = [pc EXCEPT !.handler = [at |-> "idle"]]
     /\ Step

\* what a "switch" request does once it has begun
SwitchRequest ==
  \/ SwitchLookup
  \/ SwitchLeave
  \/ SwitchEnter
  \/ SwitchSubscribe

\* two audio mountpoints without helpers, the ingestion thread of the
\* first at the top of its loop, and one session, whose PeerConnection
\* does not come up
InitIntr ==
  /\ mountpoints = [m \in {"mp1", "mp2"} |-> NewMountpoint(BaseConfig)]
  /\ sessions = [s \in {"s1"} |-> NewSession]
  /\ now = SvcFallback
  /\ sender = [n |-> 0, seq |-> FirstSeq, ts |-> 0]
  /\ calls = << >>
  /\ handled = Nothing
  /\ delivered = << >>
  /\ eligible = << >>
  /\ alloc = NewAlloc
  /\ pc = [relay |-> [at |-> "loop", revents |-> {}], destroy |-> [at |-> "idle"],
           handler |-> [at |-> "idle"], pipe |-> 0, reported |-> FALSE, late |-> FALSE]
  /\ locks = [mutex \in {Registry, "mp1", "mp2", "s1"} |-> {}]

\* a "watch" request, which the handler thread works off under the registry,
\* the mountpoint's and the session's mutex
WatchRequest(s, m) ==
  /\ pc.handler.at = "idle"
  /\ MutexFree(locks[Registry]) /\ MutexFree(locks[m]) /\ MutexFree(locks[s])
  /\ Watch(s, m, FALSE, TRUE, TRUE, 2, 2)

NextIntr ==
  \/ RelayThread("mp1")
  \/ DestroyBegin("mp1")
  \/ DestroyRequest("mp1")
  \/ \E m \in DOMAIN mountpoints : SwitchBegin("s1", m)
  \/ SwitchRequest
  \/ \E m \in DOMAIN mountpoints : WatchRequest("s1", m)

\* every thread that can go on does go on: the ingestion thread, a destroy
\* request and a switch request once begun
SpecIntr ==
  /\ InitIntr
  /\ [][NextIntr]_vars
  /\ WF_vars(RelayThread("mp1"))
  /\ WF_vars(DestroyRequest("mp1"))
  /\ WF_vars(SwitchRequest)

\* C10: once a poll of the ingestion thread has reported the interrupt pipe
\* readable the thread starts no further poll, and once the pipe has been
\* written and janus_streaming_mountpoint_destroy waits in g_thread_join,
\* the thread terminates and the join returns
C10_InterruptEndsThread ==
  /\ [](~pc.late)
  /\ (pc.destroy.at = "join") ~> (pc.destroy.at = "kick")

\* the pipe was written and read and the ingestion thread has left its
\* loop, but waits for the mutex of a session whose "switch" request waits
\* for the registry mutex, which the destroy request holds in the join
C10_Witness ==
  /\ pc.destroy.at = "join"
  /\ pc.reported /\ pc.pipe = 0
  /\ pc.relay.at = "viewer"
  /\ pc.handler.at = "lookup"
  /\ locks["s1"] = {"handler"}
  /\ locks[Registry] = {"destroy"}
  /\ locks["mp1"] = {"relay"}
  /\ mountpoints["mp1"].viewers = << "s1" >>

(***************************************************************************)
(* The poll loop of the ingestion thread: what poll reports, socket errors *)
(* and datagrams that cannot be used                                       *)
(***************************************************************************)
\* the descriptors of fds[], in the order the loop fills them in
LoopFds == << "audio", "video", "pipe" >>

\* what poll reports for one descriptor: nothing, POLLIN, POLLERR or POLLHUP
Revents == {"", "POLLIN", "POLLERR", "POLLHUP"}

\* the descriptors the mountpoint has (the others are -1)
HasFd(mp, fd) ==
  IF fd = "audio" THEN mp.audio ELSE IF fd = "video" THEN mp.video ELSE TRUE

\* no events: fds[].revents before poll fills them in
NoRevents == [fd \in SeqToSet(LoopFds) |-> ""]

\* "Socket error?": the mountpoint is disabled and its recorders are closed
SocketError(mp) == [CloseRecorders(mp) EXCEPT !.enabled = FALSE]

\* the loop without the error handling
\* a step of the loop that handles no datagram
LoopStep ==
  /\ calls' = << >>
  /\ handled' = Nothing
  /\ UNCHANGED << sessions, now, sender, delivered, eligible, alloc, locks >>

\* the while condition: out of the loop once the mountpoint is destroyed,
\* into the next poll otherwise. polled notes that a poll cycle has begun
\* after a socket error was seen
LoopWhile(m) ==
  /\ pc.at = "while"
  /\ IF mountpoints[m].destroyed
     THEN /\ pc' = [pc EXCEPT !.at = "exited"]
          /\ mountpoints' = [mountpoints EXCEPT ![m].thread = "exited"]
     ELSE /\ pc' = [pc EXCEPT !.at = "poll", !.polled = pc.polled \/ pc.errored, !.input = ""]
          /\ UNCHANGED mountpoints
  /\ LoopStep

\* poll(fds, num, 1000) returns: interrupted, failed, timed out, or with
\* events on some descriptors. No more datagrams are reported than the source
\* sends, and the pipe is readable once it was written
LoopPoll(m, res, revents) ==
  /\ pc.at = "poll"
  /\ IF res = "EINTR" \/ res = "timeout"
     THEN /\ pc' = [pc EXCEPT !.at = "while"]
          /\ UNCHANGED mountpoints
     ELSE IF res = "error"
     THEN /\ pc' = [pc EXCEPT !.at = "exited"]
          /\ mountpoints' = [mountpoints EXCEPT ![m] = [SocketError(@) EXCEPT !.thread = "exited"]]
     ELSE /\ \E fd \in DOMAIN revents : revents[fd] # ""
          /\ \A fd \in DOMAIN revents : ~HasFd(mountpoints[m], fd) => revents[fd] = ""
          /\ revents["pipe"] = "POLLIN" => pc.pipe > 0
          /\ pc.pipe > 0 => revents["pipe"] # ""
          /\ Cardinality({ fd \in {"audio", "video"} : revents[fd] = "POLLIN" })
               <= LoopPackets - sender.n
          /\ pc' = [pc EXCEPT !.at = "for", !.i = 1, !.revents = revents]
          /\ UNCHANGED mountpoints
  /\ LoopStep

\* the kind of a datagram: not RTP, SRTP that cannot be unprotected, or good
Datagram(source, wellformed, srtp_ok) ==
  IF ~wellformed THEN "malformed"
  ELSE IF source.is_srtp /\ ~srtp_ok THEN "srtp" ELSE "ok"

\* what the source may put into a datagram that poll reported
LoopAudio(m, i) ==
  \E wellformed \in BOOLEAN, srtp_ok \in BOOLEAN, ext \in Exts(mountpoints[m]) :
    /\ IngestAudio(m, wellformed, SourceSsrc, srtp_ok, 0, ext)
    /\ pc' = [pc EXCEPT !.i = i + 1, !.read = pc.read \/ pc.errored,
                        !.input = Datagram(mountpoints[m].source, wellformed, srtp_ok)]

LoopVideo(m, i) ==
  \E wellformed \in BOOLEAN, srtp_ok \in BOOLEAN, newframe \in BOOLEAN,
     keyframe \in BOOLEAN, ext \in Exts(mountpoints[m]) :
    /\ IngestVideo(m, wellformed, SourceSsrc, srtp_ok, 0, newframe, keyframe, 0, NoSvcInfo, ext)
    /\ pc' = [pc EXCEPT !.i = i + 1, !.read = pc.read \/ pc.errored,
                        !.input = Datagram(mountpoints[m].source, wellformed, srtp_ok)]

\* one round of "for(i=0; i<num; i++)": the break of the error branch and of
\* the pipe branch leaves the for loop, and the while condition is next
LoopFor(m) ==
  /\ pc.at = "for"
  /\ IF pc.i > Len(LoopFds)
     THEN /\ pc' = [pc EXCEPT !.at = "while", !.i = 1, !.revents = NoRevents, !.input = ""]
          /\ UNCHANGED mountpoints
          /\ LoopStep
     ELSE LET fd == LoopFds[pc.i]
          IN IF pc.revents[fd] \in {"POLLERR", "POLLHUP"}
             THEN /\ mountpoints' = [mountpoints EXCEPT ![m] = SocketError(@)]
                  /\ pc' = [pc EXCEPT !.at = "while", !.i = 1, !.revents = NoRevents,
                                      !.errored = TRUE, !.input = ""]
                  /\ LoopStep
             ELSE IF pc.revents[fd] = "POLLIN" /\ fd = "pipe"
             THEN /\ pc' = [pc EXCEPT !.at = "while", !.i = 1, !.revents = NoRevents,
                                      !.pipe = 0, !.input = ""]
                  /\ UNCHANGED mountpoints
                  /\ LoopStep
             ELSE IF pc.revents[fd] = "POLLIN" /\ fd = "audio" THEN LoopAudio(m, pc.i)
             ELSE IF pc.revents[fd] = "POLLIN" /\ fd = "video" THEN LoopVideo(m, pc.i)
             ELSE /\ pc' = [pc EXCEPT !.i = pc.i + 1, !.input = ""]
                  /\ UNCHANGED mountpoints
                  /\ LoopStep

\* the "recording" request with action "start", for audio and video
StartRecording(m, audio, video) ==
  LET source == mountpoints[m].source
  IN /\ mountpoints[m].registered
     /\ audio \/ video
     /\ ~((audio /\ source.arc) \/ (video /\ source.vrc))
     /\ mountpoints' = [mountpoints EXCEPT ![m].source.arc = @ \/ audio,
                                           ![m].source.vrc = @ \/ video]
     /\ LoopStep
     /\ UNCHANGED pc

\* the mountpoint is destroyed: the flag is set and the pipe is written
LoopDestroy(m) ==
  /\ mountpoints[m].registered
  /\ mountpoints' = [mountpoints EXCEPT ![m].registered = FALSE, ![m].destroyed = TRUE]
  /\ pc' = [pc EXCEPT !.pipe = 1, !.input = ""]
  /\ LoopStep

\* the poll loop's own state: where it is, the events of the cycle, whether
\* the pipe was written, and what has happened: a socket error was seen, a
\* poll cycle began after it, a datagram was read after it, and the kind of
\* the datagram read last
NewLoop ==
  [at |-> "while", i |-> 1, revents |-> NoRevents,
   pipe |-> 0, errored |-> FALSE, polled |-> FALSE, read |-> FALSE, input |-> ""]

InitPoll(configs) ==
  /\ \E cfg \in configs : mountpoints = [m \in {"mp1"} |-> NewMountpoint(cfg)]
  /\ sessions = [s \in {"s1"} |-> NewSession]
  /\ now = SvcFallback
  /\ sender = [n |-> 0, seq |-> FirstSeq, ts |-> 0]
  /\ calls = << >>
  /\ handled = Nothing
  /\ delivered = << >>
  /\ eligible = << >>
  /\ alloc = NewAlloc
  /\ pc = NewLoop
  /\ locks = NoLocks

\* a mountpoint with audio and video whose sockets fail, while it is enabled,
\* disabled, recorded and destroyed
InitLoop == InitPoll({ [BaseConfig EXCEPT !.video = TRUE] })

NextLoop ==
  \/ LoopWhile("mp1")
  \/ \E res \in {"EINTR", "timeout", "error", "events"},
        revents \in [SeqToSet(LoopFds) -> Revents] : LoopPoll("mp1", res, revents)
  \/ LoopFor("mp1")
  \/ Enable("mp1")
  \/ StartRecording("mp1", TRUE, TRUE)
  \/ LoopDestroy("mp1")

SpecLoop == InitLoop /\ [][NextLoop]_vars

\* C11: once poll has reported POLLERR or POLLHUP on a descriptor, the
\* mountpoint's ingestion loop is left: no poll cycle begins and no datagram
\* is read for the mountpoint afterwards
C11_SocketErrorEndsLoop ==
  pc.errored => ~pc.polled /\ ~pc.read /\ pc.at \in {"while", "exited"}

\* after a socket error the loop polled again and read a datagram, and an
\* enable request has the mountpoint relaying again
C11_Witness ==
  /\ pc.errored /\ pc.polled /\ pc.read
  /\ mountpoints["mp1"].enabled
  /\ ~mountpoints["mp1"].destroyed

\* the part of C11 the loop keeps: the step that sees the socket error leaves
\* the mountpoint disabled and without an open recorder
SocketErrorDisables ==
  [][~pc.errored /\ pc'.errored =>
       /\ ~mountpoints'["mp1"].enabled
       /\ ~mountpoints'["mp1"].source.arc
       /\ ~mountpoints'["mp1"].source.vrc
       /\ ~mountpoints'["mp1"].source.drc]_vars

\* an SRTP mountpoint with audio, video and a keyframe buffer, served directly
\* or by a helper, whose source sends datagrams that cannot be used
InitDrop ==
  InitPoll({ [BaseConfig EXCEPT !.video = TRUE, !.bufferkf = TRUE, !.is_srtp = TRUE,
                                !.threads = t] : t \in {0, 1} })

NextDrop ==
  \/ LoopWhile("mp1")
  \/ \E res \in {"timeout", "events"},
        revents \in [SeqToSet(LoopFds) -> {"", "POLLIN"}] : LoopPoll("mp1", res, revents)
  \/ LoopFor("mp1")
  \/ Helpers
  \/ Join({2})
  \/ Enable("mp1")
  \/ Disable("mp1")
  \/ \E audio, video \in BOOLEAN : StartRecording("mp1", audio, video)

SpecDrop == InitDrop /\ [][NextDrop]_vars


\* C19: a datagram that is not RTP, or that SRTP cannot unprotect, is dropped
\* where it was read: the step makes no gateway call, queues nothing for a
\* helper, saves nothing to a recorder, leaves the keyframe buffer, the
\* enabled flag and the viewers as they were, and the loop goes on with the
\* next descriptor
C19_BadDatagramDropped ==
  [][sender'.n # sender.n /\ pc'.input \in {"malformed", "srtp"} =>
       /\ calls' = << >>
       /\ mountpoints'["mp1"].threads = mountpoints["mp1"].threads
       /\ mountpoints'["mp1"].source.saved = mountpoints["mp1"].source.saved
       /\ mountpoints'["mp1"].source.keyframe = mountpoints["mp1"].source.keyframe
       /\ mountpoints'["mp1"].enabled = mountpoints["mp1"].enabled
       /\ mountpoints'["mp1"].viewers = mountpoints["mp1"].viewers
       /\ mountpoints'["mp1"].thread = "running"
       /\ pc'.at = "for" /\ pc'.i = pc.i + 1]_vars

\* a datagram SRTP could not unprotect was read while the mountpoint was
\* enabled and recorded, a keyframe was being buffered and a viewer was started
C19_Witness ==
  /\ pc.at = "for" /\ pc.input = "srtp" /\ handled = Nothing
  /\ sender.n = LoopPackets
  /\ mountpoints["mp1"].enabled
  /\ mountpoints["mp1"].source.arc /\ mountpoints["mp1"].source.vrc
  /\ mountpoints["mp1"].source.keyframe.temp_keyframe # << >>
  /\ sessions["s1"].started

(***************************************************************************)
(* The data channel: the messages of the data socket, fanned out like RTP, *)
(* and the flags a viewer sets for audio, video and data                   *)
(***************************************************************************)
\* the struct of the ingestion thread is a local that nothing initializes:
\* is_keyframe holds what the stack held until an RTP datagram assigns it
StackPacket(garbage) == [NoPacket EXCEPT !.is_keyframe = garbage]

\* a data message has no RTP header: the buffer holds the payload
Payload == Header(0, 0, 0, 0, FALSE)

\* "Are we keeping track of the last message being relayed?": the message is
\* copied into a new packet; source->last_msg is left as it is
BufferMsg(mp, packet) ==
  IF mp.source.buffermsg
  THEN [mp EXCEPT !.source.pkt =
          [NoPacket EXCEPT !.id = packet.id, !.recv_enabled = packet.recv_enabled,
                           !.wire_text = packet.wire_text, !.data = packet.data]]
  ELSE mp

\* "g_free(packet.data); packet.data = NULL;"
Freed(mp) == [mp EXCEPT !.source.packet.data = NoPacket.data]

\* a data message that is fanned out
RelayedData(m, mp, packet, ext) ==
  /\ \E r \in { FanOut(mp, sessions, packet, now, ext) } :
       /\ mountpoints' = [mountpoints EXCEPT ![m] = Freed(r.mp)]
       /\ sessions' = r.sessions
       /\ calls' = r.calls
       /\ delivered' = Deliver(delivered, r.calls)
  /\ sender' = Sent(FALSE, TRUE)
  /\ handled' = Handled(packet)
  /\ UNCHANGED << now, eligible, alloc, locks >>

\* one datagram on the data socket, of bytes bytes
IngestData(m, bytes, ext) ==
  LET mp == mountpoints[m]
      source == mp.source
      received == [mp EXCEPT !.source.last_received_data = now]
      packet == [source.packet EXCEPT
                   !.id = sender.n + 1, !.recv_enabled = mp.enabled,
                   !.wire_svc = FALSE, !.wire_info = NoSvcInfo,
                   !.wire_text = source.textdata,
                   !.data = Payload, !.is_rtp = FALSE,
                   !.textdata = source.textdata]
      saved == Recorded(received, source.drc, packet.id)
  IN /\ mp.thread = "running" /\ mp.data
     /\ sender.n < MaxPackets
     /\ IF bytes < 1 THEN Ingested(m, received, FALSE, TRUE)
        ELSE IF ~mp.enabled /\ ~source.drc THEN Ingested(m, received, FALSE, TRUE)
        ELSE IF ~mp.enabled
        THEN Ingested(m, Freed([saved EXCEPT !.source.packet = packet]), FALSE, TRUE)
        ELSE \E relayed \in { packet } :
               RelayedData(m, BufferMsg(saved, relayed), relayed, ext)

\* janus_streaming_data_ready: the data channel of the session is writable,
\* which it gets once the PeerConnection is up
janus_streaming_data_ready(s) ==
  /\ sessions[s].started /\ ~sessions[s].dataready
  /\ sessions' = [sessions EXCEPT ![s].dataready = TRUE]
  /\ calls' = << >>
  /\ handled' = Nothing
  /\ UNCHANGED << mountpoints, now, sender, delivered, eligible, aside >>

\* the "configure" request with the audio, video and data properties
ConfigureMedia(s, audio, video, data) ==
  /\ sessions[s].mountpoint # NoMountpoint
  /\ sessions' = [sessions EXCEPT ![s].audio = audio, ![s].video = video, ![s].data = data]
  /\ calls' = << >>
  /\ handled' = Nothing
  /\ UNCHANGED << mountpoints, now, sender, delivered, eligible, aside >>

DataIn ==
  \E bytes \in {0, 1}, ext \in Exts(mountpoints["mp1"]) :
    IngestData("mp1", bytes, ext) /\ UNCHANGED pc

\* a mountpoint with audio and text data that buffers the last message, with
\* and without a helper, and one viewer; the ingestion thread starts on a
\* stack of either content
InitData ==
  /\ \E threads \in {0, 1}, garbage \in BOOLEAN :
       mountpoints = [m \in {"mp1"} |->
         [NewMountpoint([BaseConfig EXCEPT !.data = TRUE, !.buffermsg = TRUE,
                                           !.threads = threads])
            EXCEPT !.source.packet = StackPacket(garbage)]]
  /\ sessions = [s \in {"s1"} |-> NewSession]
  /\ now = SvcFallback
  /\ sender = [n |-> 0, seq |-> FirstSeq, ts |-> 0]
  /\ calls = << >>
  /\ handled = Nothing
  /\ delivered = [s \in {"s1"} |-> << >>]
  /\ eligible = [s \in {"s1"} |-> [since |-> 0, ids |-> << >>]]
  /\ alloc = NewAlloc
  /\ pc = NoThreads
  /\ locks = NoLocks

NextData ==
  \/ AudioIn
  \/ DataIn
  \/ Helpers
  \/ Join({2})
  \/ janus_streaming_data_ready("s1")
  \/ Pause("s1")
  \/ Start("s1")
  \/ \E audio, video, data \in BOOLEAN : ConfigureMedia("s1", audio, video, data)
  \/ Enable("mp1")
  \/ Disable("mp1")

SpecData == InitData /\ [][NextData]_vars

\* the flag of the viewer for the media type of a gateway call
Wanted(c) ==
  IF c.call.fn = "relay_data" THEN sessions[c.viewer].data
  ELSE IF c.call.video THEN sessions[c.viewer].video
  ELSE sessions[c.viewer].audio

\* C12: relay_rtp and relay_data are never invoked for a viewer whose flag
\* for the packet's media type is off, and never for a live packet while the
\* viewer is not started or is paused; only the packets replayed by
\* setup_media reach a viewer that is not started yet
C12_RelayOnlyWhenWanted ==
  \A i \in 1..Len(calls) :
    calls[i].call.fn \in {"relay_rtp", "relay_data"} =>
      /\ Wanted(calls[i])
      /\ calls[i].via # "replay" => calls[i].call.started /\ ~calls[i].call.paused
      /\ ~calls[i].call.started => calls[i].via = "replay"

\* a live data message was relayed to a viewer that was paused when
\* relay_data was called
C12_Witness ==
  \E i \in 1..Len(calls) :
    /\ calls[i].call.fn = "relay_data" /\ calls[i].via # "replay"
    /\ calls[i].call.started /\ calls[i].call.paused
    /\ sessions[calls[i].viewer].data /\ sessions[calls[i].viewer].dataready

\* the packet the ingestion thread handed to the helper, from what the
\* datagram carried
Original(pkt) ==
  [pkt EXCEPT !.svc = pkt.wire_svc, !.svc_info = pkt.wire_info,
              !.textdata = pkt.wire_text]

\* the gateway calls of a step without the bookkeeping around them
Gateway(cs) == [i \in 1..Len(cs) |-> cs[i].call]

\* C13: a helper that serves its viewers with a queued packet makes the
\* gateway calls, with the content, that direct forwarding of the packet to
\* the same viewers in the same state makes
C13_HelperAsDirect ==
  [][\A h \in DOMAIN mountpoints["mp1"].threads :
       LET helper == mountpoints["mp1"].threads[h]
           direct == RelayToViewers(helper.viewers, sessions,
                                    Original(Head(helper.queued_packets)), now,
                                    [simrelay |-> [v \in DOMAIN sessions |-> TRUE], oob |-> 0],
                                    "direct", << >>)
       IN /\ helper.queued_packets # << >>
          /\ mountpoints'["mp1"].threads[h].queued_packets = Tail(helper.queued_packets)
          => /\ Gateway(calls') = Gateway(direct.calls)
             /\ sessions' = direct.sessions]_vars

\* a helper handed a message of the data socket to relay_rtcp
C13_Witness ==
  \E i \in 1..Len(calls) :
    /\ calls[i].via = "helper" /\ calls[i].call.fn = "relay_rtcp"
    /\ calls[i].call.id = handled.id
    /\ sessions[calls[i].viewer].data /\ sessions[calls[i].viewer].dataready
    /\ mountpoints["mp1"].data /\ mountpoints["mp1"].helper_threads > 0

\* C17: on a mountpoint that buffers the last message, a viewer whose media
\* became ready after a data message was fanned out, and whose data channel
\* is writable, has been sent the most recent such message
C17_LastMessageReplayed ==
  \A s \in DOMAIN sessions :
    LET mp == mountpoints["mp1"]
    IN /\ sessions[s].mountpoint = "mp1" /\ sessions[s].started
       /\ sessions[s].data /\ sessions[s].dataready
       /\ mp.data /\ mp.source.buffermsg /\ mp.source.pkt # NoPacket
       /\ eligible[s].since >= mp.source.pkt.id
       => \E i \in 1..Len(delivered[s]) : delivered[s][i].id = mp.source.pkt.id

\* a started, unpaused viewer with a writable data channel whose media became
\* ready after the last message, while the mountpoint was enabled
C17_Witness ==
  /\ sessions["s1"].mountpoint = "mp1" /\ sessions["s1"].started
  /\ ~sessions["s1"].paused /\ sessions["s1"].data /\ sessions["s1"].dataready
  /\ mountpoints["mp1"].enabled /\ mountpoints["mp1"].source.buffermsg
  /\ mountpoints["mp1"].source.pkt.id > 0
  /\ mountpoints["mp1"].source.pkt.recv_enabled
  /\ eligible["s1"].since >= mountpoints["mp1"].source.pkt.id
  /\ mountpoints["mp1"].source.last_msg = NoPacket
  /\ delivered["s1"] = << >>

(***************************************************************************)
(* Creation and release of a mountpoint: the registry, the threads and the *)
(* reference counter                                                       *)
(***************************************************************************)
\* janus_refcount_init(&live_rtp->ref, janus_streaming_mountpoint_free): the
\* mountpoint with its counter, and whether janus_streaming_mountpoint_free
\* has run
Counted(mp) ==
  [k \in DOMAIN mp \cup {"ref", "freed"} |->
     IF k = "ref" THEN 1 ELSE IF k = "freed" THEN FALSE ELSE mp[k]]

\* janus_refcount_increase and janus_refcount_decrease, which frees the
\* mountpoint when the counter reaches zero
Ref(mp) == [mp EXCEPT !.ref = @ + 1]
Unref(mp) == [mp EXCEPT !.ref = @ - 1, !.freed = mp.ref = 1]

\* the sentinel that ends a helper thread
exit_packet == [NoPacket EXCEPT !.id = -1]

\* "Get rid of the helper threads, if any": the helpers in the list are sent
\* the sentinel and destroyed
HelpersDestroyed(mp) ==
  [mp EXCEPT !.threads = [h \in DOMAIN @ |->
     [@[h] EXCEPT !.queued_packets = Append(@, exit_packet), !.destroyed = TRUE]]]

\* janus_streaming_mountpoint_destroy on a mountpoint whose ingestion thread
\* was never started (mountpoint->thread is NULL, nothing to join)
janus_streaming_mountpoint_destroy(mp) ==
  IF mp.destroyed THEN mp
  ELSE Unref(HelpersDestroyed([mp EXCEPT !.destroyed = TRUE]))

\* a step of the life cycle: no media, no port, no mutex
LifeStep ==
  /\ calls' = << >>
  /\ handled' = Nothing
  /\ UNCHANGED << now, sender, delivered, eligible, alloc, locks >>

\* the creation goes on with a mountpoint that a destroy request has freed
\* in the meantime
UsedAfterFree ==
  /\ pc' = [pc EXCEPT !.ub = TRUE, !.create.at = "returned"]
  /\ UNCHANGED mountpoints

\* "If we need helper threads, spawn them now": one turn of the loop;
\* g_thread_try_new succeeds or fails
CreateHelper(m, ok) ==
  LET mp == mountpoints[m]
      counted == Ref([mp EXCEPT !.helper_threads = @ + 1])
      h == pc.create.i + 1
  IN /\ pc.create.at = "helpers" /\ pc.create.i < pc.create.threads
     /\ IF mp.freed THEN UsedAfterFree
        ELSE IF ok
        THEN /\ mountpoints' = [mountpoints EXCEPT ![m] =
                  [counted EXCEPT !.threads = Append(@, NewHelper)]]
             /\ pc' = [pc EXCEPT !.create.i = h, !.helpers[h] = "running"]
        ELSE /\ mountpoints' = [mountpoints EXCEPT ![m] =
                  janus_streaming_mountpoint_destroy(Unref(counted))]
             /\ pc' = [pc EXCEPT !.create.at = "returned", !.create.result = "NULL"]
     /\ UNCHANGED sessions
     /\ LifeStep

\* "Finally, create the mountpoint thread itself"
CreateThread(m, ok) ==
  LET mp == mountpoints[m]
  IN /\ pc.create.at = "helpers" /\ pc.create.i = pc.create.threads
     /\ IF mp.freed THEN UsedAfterFree
        ELSE IF ok
        THEN /\ mountpoints' = [mountpoints EXCEPT ![m] = [Ref(mp) EXCEPT !.thread = "running"]]
             /\ pc' = [pc EXCEPT !.create.at = "returned", !.create.result = m]
        ELSE /\ mountpoints' = [mountpoints EXCEPT ![m] =
                  janus_streaming_mountpoint_destroy(Unref(Ref(mp)))]
             /\ pc' = [pc EXCEPT !.create.at = "returned", !.create.result = "NULL"]
     /\ UNCHANGED sessions
     /\ LifeStep

\* a helper thread leaves its loop, on the sentinel or on a destroyed flag,
\* and gives its reference back
HelperExit(m, h) ==
  LET mp == mountpoints[m]
      helper == mp.threads[h]
  IN /\ h \in DOMAIN mp.threads /\ pc.helpers[h] = "running"
     /\ ~mp.freed
     /\ \/ mp.destroyed \/ helper.destroyed
        \/ helper.queued_packets # << >> /\ Head(helper.queued_packets) = exit_packet
     /\ mountpoints' = [mountpoints EXCEPT ![m] = Unref(mp)]
     /\ pc' = [pc EXCEPT !.helpers[h] = "exited"]
     /\ UNCHANGED sessions
     /\ LifeStep

\* the references the viewers kicked out of the list held
RECURSIVE UnrefAll(_, _)
UnrefAll(mp, n) == IF n = 0 THEN mp ELSE UnrefAll(Unref(mp), n - 1)

\* the viewers of the list whose session->mountpoint is the mountpoint
Kickable(m, mp) == { v \in SeqToSet(mp.viewers) : sessions[v].mountpoint = m }

\* the ingestion thread leaves its loop, because the mountpoint is destroyed
\* or because poll failed, kicks the viewers and gives its reference back
RelayReturn(m, failed) ==
  LET mp == mountpoints[m]
  IN /\ mp.thread = "running" /\ ~mp.freed
     /\ mp.destroyed \/ failed
     /\ sessions' = ExitCleanup(m, mp.viewers, sessions)
     /\ mountpoints' = [mountpoints EXCEPT ![m] =
          Unref(UnrefAll([mp EXCEPT !.thread = "exited", !.viewers = << >>,
                                    !.enabled = IF mp.destroyed THEN @ ELSE FALSE],
                         Cardinality(Kickable(m, mp))))]
     /\ UNCHANGED pc
     /\ LifeStep

\* the "destroy" request, under the registry mutex: the lookup, the removal
\* from the registry, and janus_streaming_mountpoint_destroy up to the join.
\* A registry entry that points to a freed mountpoint is used after free
DestroyLookup(m) ==
  LET mp == mountpoints[m]
  IN /\ pc.destroy = "idle" /\ mp.registered
     /\ IF mp.freed
        THEN /\ pc' = [pc EXCEPT !.ub = TRUE, !.destroy = "done"]
             /\ UNCHANGED mountpoints
        ELSE /\ mountpoints' = [mountpoints EXCEPT ![m] =
                  [Ref(mp) EXCEPT !.registered = FALSE, !.destroyed = TRUE]]
             /\ pc' = [pc EXCEPT !.destroy = IF mp.destroyed THEN "kick" ELSE "join"]
     /\ UNCHANGED sessions
     /\ LifeStep

\* g_thread_join has returned, or there was no thread: the helpers are
\* destroyed and the registry's reference is given back
DestroyJoined(m) ==
  LET mp == mountpoints[m]
  IN /\ pc.destroy = "join"
     /\ mp.thread \in {"none", "exited"}
     /\ mountpoints' = [mountpoints EXCEPT ![m] =
          Unref(HelpersDestroyed([mp EXCEPT !.thread = IF @ = "exited" THEN "joined" ELSE @]))]
     /\ pc' = [pc EXCEPT !.destroy = "kick"]
     /\ UNCHANGED sessions
     /\ LifeStep

\* the viewers still in the list are kicked and the request gives its own
\* reference back
DestroyKicked(m) ==
  LET mp == mountpoints[m]
  IN /\ pc.destroy = "kick"
     /\ sessions' = ExitCleanup(m, mp.viewers, sessions)
     /\ mountpoints' = [mountpoints EXCEPT ![m] =
          Unref(UnrefAll([mp EXCEPT !.viewers = << >>], Cardinality(Kickable(m, mp))))]
     /\ pc' = [pc EXCEPT !.destroy = "done"]
     /\ LifeStep

\* a "watch" request of a session that watches nothing: the lookup takes a
\* reference, which the viewer keeps
WatchLookup(s, m) ==
  LET mp == mountpoints[m]
  IN /\ pc.destroy \in {"idle", "done"} /\ mp.registered
     /\ sessions[s].mountpoint = NoMountpoint
     /\ IF mp.freed
        THEN /\ pc' = [pc EXCEPT !.ub = TRUE]
             /\ UNCHANGED << mountpoints, sessions >>
        ELSE /\ mountpoints' = [mountpoints EXCEPT ![m] = Ref([mp EXCEPT !.viewers = Append(@, s)])]
             /\ sessions' = [sessions EXCEPT ![s].mountpoint = m, ![s].stopping = FALSE]
             /\ UNCHANGED pc
     /\ LifeStep

\* janus_streaming_hangup_media_internal of a viewer: off the list, and the
\* viewer's reference is given back
HangupViewer(s) ==
  LET m == sessions[s].mountpoint
      mp == mountpoints[m]
      left == [mp EXCEPT !.viewers = RemoveAll(@, s)]
  IN /\ m # NoMountpoint /\ ~mp.freed
     /\ sessions' = [sessions EXCEPT ![s] = HungUp(@)]
     /\ mountpoints' = [mountpoints EXCEPT ![m] =
          IF s \in SeqToSet(mp.viewers) THEN Unref(left) ELSE left]
     /\ UNCHANGED pc
     /\ LifeStep

\* the mountpoint with threads helpers asked for, as
\* janus_streaming_create_rtp_source has it when it has put it in the
\* registry: no thread is started yet
InitCreate ==
  /\ \E threads \in 0..MaxHelpers :
       /\ mountpoints = [m \in {"mp1"} |->
            Counted([NewMountpoint(BaseConfig) EXCEPT !.thread = "none"])]
       /\ pc = [create |-> [at |-> "helpers", i |-> 0, threads |-> threads,
                            result |-> "pending"],
                helpers |-> [h \in 1..MaxHelpers |-> "none"],
                destroy |-> "idle", ub |-> FALSE]
  /\ sessions = [s \in Sessions |-> NewSession]
  /\ now = SvcFallback
  /\ sender = [n |-> 0, seq |-> FirstSeq, ts |-> 0]
  /\ calls = << >>
  /\ handled = Nothing
  /\ delivered = << >>
  /\ eligible = << >>
  /\ alloc = NewAlloc
  /\ locks = NoLocks

NextCreate ==
  \/ \E ok \in BOOLEAN : CreateHelper("mp1", ok)
  \/ \E ok \in BOOLEAN : CreateThread("mp1", ok)
  \/ \E h \in 1..MaxHelpers : HelperExit("mp1", h)
  \/ \E failed \in BOOLEAN : RelayReturn("mp1", failed)
  \/ DestroyLookup("mp1")
  \/ DestroyJoined("mp1")
  \/ DestroyKicked("mp1")
  \/ \E s \in Sessions : WatchLookup(s, "mp1")
  \/ \E s \in Sessions : HangupViewer(s)

SpecCreate == InitCreate /\ [][NextCreate]_vars

\* every thread that can go on does: the helpers and the ingestion thread
\* return, a destroy request goes on
SpecCreateFair ==
  /\ SpecCreate
  /\ \A h \in 1..MaxHelpers : WF_vars(HelperExit("mp1", h))
  /\ WF_vars(RelayReturn("mp1", FALSE))
  /\ WF_vars(DestroyJoined("mp1"))
  /\ WF_vars(DestroyKicked("mp1"))

\* C18: when the creation has returned failure, the registry holds no entry
\* for the mountpoint
C18_FailedCreateRolledBack ==
  pc.create.result = "NULL" => ~mountpoints["mp1"].registered

\* the ingestion thread could not be started after two helpers were: the
\* creation returned NULL, the helpers have returned, the mountpoint is
\* freed, and the registry still holds it
C18_Witness ==
  /\ pc.create.result = "NULL" /\ pc.create.i = MaxHelpers
  /\ \A h \in 1..MaxHelpers : pc.helpers[h] = "exited"
  /\ mountpoints["mp1"].destroyed /\ mountpoints["mp1"].freed
  /\ mountpoints["mp1"].registered

\* once the creation has failed every helper that was started returns
FailedCreateEndsHelpers ==
  pc.create.result = "NULL" ~> \A h \in 1..MaxHelpers : pc.helpers[h] # "running"

\* C20: the mountpoint is freed only with its counter at zero, and then its
\* ingestion thread and its helpers have returned, it has no viewer and the
\* registry does not hold it; and the registry's reference is given back by
\* a destroy request only after the ingestion thread has returned
C20_FreedOnlyWhenUnused ==
  LET mp == mountpoints["mp1"]
  IN /\ mp.freed =>
          /\ mp.ref = 0
          /\ mp.thread # "running"
          /\ \A h \in 1..MaxHelpers : pc.helpers[h] # "running"
          /\ mp.viewers = << >>
          /\ ~mp.registered
     /\ pc.destroy \in {"kick", "done"} => mp.thread # "running"

\* a mountpoint was freed at counter zero while the registry held it
C20_Witness ==
  /\ mountpoints["mp1"].freed /\ mountpoints["mp1"].ref = 0
  /\ mountpoints["mp1"].registered
  /\ mountpoints["mp1"].thread = "none"
  /\ pc.destroy = "idle" /\ ~pc.ub

(***************************************************************************)
(* Specification of the port allocator: two threads that ask for single    *)
(* ports and for pairs, and sockets that are closed                        *)
(***************************************************************************)
Allocators == {"t1", "t2"}

\* the relay engine where a specification has no use for it
NoMedia ==
  /\ mountpoints = << >>
  /\ sessions = << >>
  /\ now = 0
  /\ sender = [n |-> 0, seq |-> FirstSeq, ts |-> 0]
  /\ calls = << >>
  /\ handled = Nothing
  /\ delivered = << >>
  /\ eligible = << >>

InitPorts ==
  /\ NoMedia
  /\ alloc = NewAlloc
  /\ pc = [t \in Allocators |-> Idle]
  /\ locks = NoLocks

NextPorts ==
  \/ \E t \in Allocators : CreateFd(t)
  \/ \E t \in Allocators : PairBegin(t)
  \/ \E t \in Allocators : PairRtp(t)
  \/ \E t \in Allocators : PairRtcp(t)
  \/ \E port \in DOMAIN alloc.bound : Release(port)

SpecPorts == InitPorts /\ [][NextPorts]_vars

InRange(port) == rtp_range_min <= port /\ port <= rtp_range_max

\* C8: of the successive requests with hint 0 made since no port of the
\* range was in use, the first RangeSize ones succeed with distinct ports of
\* the range, and the next one fails after trying no port twice
C8_RangeExhaustedExactly ==
  LET results == alloc.streak.results
  IN alloc.streak.valid =>
       /\ \A i \in 1..Len(results) : i <= RangeSize => InRange(results[i].port)
       /\ \A i, j \in 1..Len(results) :
            i < j /\ j <= RangeSize => results[i].port # results[j].port
       /\ \A i \in 1..Len(results) :
            i > RangeSize =>
              /\ results[i].port = -1
              /\ Len(results[i].tried) <= RangeSize
              /\ \A j, k \in 1..Len(results[i].tried) :
                   j < k => results[i].tried[j] # results[i].tried[k]

\* the whole range was handed out and one more request failed
C8_Witness ==
  /\ alloc.streak.valid
  /\ Len(alloc.streak.results) = RangeSize + 1
  /\ alloc.streak.results[RangeSize + 1].port = -1
  /\ Len(alloc.streak.results[RangeSize + 1].tried) = RangeSize
  /\ alloc.rtp_range_slider = rtp_range_max

\* C9: every port bound lies within the range, the RTP port of a pair is
\* even, and the slider is within the range
C9_PortsWithinRange ==
  /\ InRange(alloc.rtp_range_slider)
  /\ \A port \in DOMAIN alloc.bound :
       /\ InRange(port)
       /\ alloc.bound[port] = "rtp" => port % 2 = 0

\* a pair whose RTCP port lies beyond the last port of the range
C9_Witness ==
  \E port \in DOMAIN alloc.bound :
    /\ alloc.bound[port] = "rtcp"
    /\ port > rtp_range_max
    /\ \A t \in Allocators : pc[t].at = "idle"

(***************************************************************************)
(* The packet buffers and the threads that write to them: the receive      *)
(* buffer of the ingestion thread, the clones queued for the helpers and   *)
(* the packets of the keyframe buffer                                      *)
(***************************************************************************)
\* "char buffer[1500]" of the ingestion thread
ReceiveBuffer == << "buffer", 0, 0 >>

\* the buffer a helper is queued for datagram n: the ingestion thread's own
\* buffer, were nothing copied
AliasBuffer(h, n) == ReceiveBuffer

\* "copy->data = g_malloc(packet->length); memcpy(...)": a buffer of its own
\* for every helper and every datagram
HelperBuffer(h, n) == << "copy", h, n >>

\* the copy of datagram n kept in the keyframe buffer
KeyframeBuffer(n) == << "keyframe", 0, n >>

\* the threads that serve viewers: the ingestion thread, the helpers, and
\* the threads the gateway calls setup_media on
\* g_snprintf(tname, sizeof(tname), "help %u-%"SCNu64, ...): the helpers'
\* thread names
HelperName(h) == << "help 1", "help 2", "help 3", "help 4" >>[h]

BufThreads == {"relay"} \cup { HelperName(h) : h \in 1..MaxHelpers } \cup Sessions

KeyframeMutex == "keyframe.mutex"

\* a step of these threads; the mountpoint and the sessions stay as they are
BufStep ==
  /\ calls' = << >>
  /\ handled' = Nothing
  /\ UNCHANGED << mountpoints, sessions, now, sender, delivered, eligible, alloc >>

\* recvfrom fills the receive buffer; the datagram starts a keyframe or not
BufReceive(keyframe) ==
  /\ pc.relay = "poll" /\ pc.n < BufPackets
  /\ pc' = [pc EXCEPT !.relay = IF keyframe THEN "store" ELSE "go",
                      !.n = @ + 1,
                      !.writing = @ \cup { << "relay", ReceiveBuffer >> }]
  /\ UNCHANGED locks
  /\ BufStep

\* "New keyframe, start saving it", under the keyframe mutex: the packets
\* of the latest keyframe are freed, the keyframe saved so far takes their
\* place, and a copy of the datagram starts the next one
BufStore ==
  /\ pc.relay = "store"
  /\ MutexFree(locks[KeyframeMutex])
  /\ pc' = [pc EXCEPT !.relay = "go",
                      !.latest_keyframe = IF pc.temp_keyframe # << >> THEN pc.temp_keyframe ELSE @,
                      !.temp_keyframe = << KeyframeBuffer(pc.n) >>]
  /\ UNCHANGED locks
  /\ BufStep

\* "Go!": the ingestion thread serves every viewer on the receive buffer,
\* or queues a copy for every helper; then it is done with the datagram
BufGo ==
  /\ pc.relay = "go"
  /\ pc' = [pc EXCEPT !.relay = "poll",
                      !.writing = @ \ { << "relay", ReceiveBuffer >> },
                      !.queued_packets = [h \in DOMAIN @ |->
                          IF h <= pc.helper_threads
                          THEN Append(@[h], HelperBuffer(h, pc.n)) ELSE @[h]]]
  /\ UNCHANGED locks
  /\ BufStep

\* a helper takes a packet off its queue and rewrites its header for a
\* viewer
BufHelperPop(h) ==
  /\ pc.helper[h] = "pop" /\ pc.queued_packets[h] # << >>
  /\ pc' = [pc EXCEPT !.helper[h] = "serve",
                      !.writing = @ \cup { << HelperName(h), Head(pc.queued_packets[h]) >> }]
  /\ UNCHANGED locks
  /\ BufStep

\* the helper has restored the header for its last viewer and frees the
\* packet
BufHelperFree(h) ==
  /\ pc.helper[h] = "serve"
  /\ pc' = [pc EXCEPT !.helper[h] = "pop",
                      !.writing = @ \ { << HelperName(h), Head(pc.queued_packets[h]) >> },
                      !.queued_packets[h] = Tail(@)]
  /\ UNCHANGED locks
  /\ BufStep

\* setup_media of a session: "Any keyframe to send?", under the keyframe
\* mutex
BufSetupLock(s) ==
  /\ pc.setup[s].at = "idle"
  /\ janus_mutex_lock(KeyframeMutex, s)
  /\ pc' = [pc EXCEPT !.setup[s] = [at |-> "replay", temp |-> pc.latest_keyframe]]
  /\ BufStep

\* janus_streaming_relay_rtp_packet(session, temp->data): the header of the
\* buffered packet is rewritten for the session
BufSetupRewrite(s) ==
  /\ pc.setup[s].at = "replay" /\ pc.setup[s].temp # << >>
  /\ pc' = [pc EXCEPT !.setup[s].at = "relayed",
                      !.writing = @ \cup { << s, Head(pc.setup[s].temp) >> }]
  /\ UNCHANGED locks
  /\ BufStep

\* ... and restored; temp = temp->next
BufSetupRestore(s) ==
  /\ pc.setup[s].at = "relayed"
  /\ pc' = [pc EXCEPT !.setup[s].at = "replay", !.setup[s].temp = Tail(@),
                      !.writing = @ \ { << s, Head(pc.setup[s].temp) >> }]
  /\ UNCHANGED locks
  /\ BufStep

\* the end of the list: the mutex is released and the session started
BufSetupUnlock(s) ==
  /\ pc.setup[s].at = "replay" /\ pc.setup[s].temp = << >>
  /\ janus_mutex_unlock(KeyframeMutex, s)
  /\ pc' = [pc EXCEPT !.setup[s].at = "idle"]
  /\ BufStep

\* a mountpoint that buffers keyframes, without helpers or with MaxHelpers
\* of them, and two sessions whose PeerConnections come up
InitBuf ==
  /\ \E threads \in {0, MaxHelpers} :
       pc = [relay |-> "poll", n |-> 0, helper_threads |-> threads,
             helper |-> [h \in 1..MaxHelpers |-> "pop"],
             queued_packets |-> [h \in 1..MaxHelpers |-> << >>],
             latest_keyframe |-> << >>, temp_keyframe |-> << >>,
             setup |-> [s \in Sessions |-> [at |-> "idle", temp |-> << >>]],
             writing |-> {}]
  /\ locks = [mutex \in {KeyframeMutex} |-> {}]
  /\ NoMedia
  /\ alloc = NewAlloc

NextBuf ==
  \/ \E keyframe \in BOOLEAN : BufReceive(keyframe)
  \/ BufStore
  \/ BufGo
  \/ \E h \in 1..MaxHelpers : BufHelperPop(h)
  \/ \E h \in 1..MaxHelpers : BufHelperFree(h)
  \/ \E s \in Sessions : BufSetupLock(s)
  \/ \E s \in Sessions : BufSetupRewrite(s)
  \/ \E s \in Sessions : BufSetupRestore(s)
  \/ \E s \in Sessions : BufSetupUnlock(s)

SpecBuf == InitBuf /\ [][NextBuf]_vars

\* the threads that are writing to the buffer
Writers(b) == { t \in BufThreads : << t, b >> \in pc.writing }

\* C14: no buffer is written by two threads at a time: the receive buffer
\* is written by the ingestion thread only, the copy queued for a helper by
\* that helper only, and a packet of the keyframe buffer only by a thread
\* that holds the keyframe mutex
C14_OneWriterPerBuffer ==
  \A w \in pc.writing :
    /\ Writers(w[2]) = { w[1] }
    /\ w[2][1] = "buffer" => w[1] = "relay"
    /\ w[2][1] = "copy" => w[1] = HelperName(w[2][2])
    /\ w[2][1] = "keyframe" => w[1] \in locks[KeyframeMutex]

\* the ingestion thread, both helpers and a setup_media call are each
\* writing to a buffer at the same time
C14_Witness ==
  /\ << "relay", ReceiveBuffer >> \in pc.writing
  /\ \A h \in 1..MaxHelpers : \E n \in 1..BufPackets :
       << HelperName(h), HelperBuffer(h, n) >> \in pc.writing
  /\ \E s \in Sessions, n \in 1..BufPackets : << s, KeyframeBuffer(n) >> \in pc.writing

(***************************************************************************)
(* Skew compensation: a source whose clock runs fast or slow               *)
(***************************************************************************)
\* the datagram the ingestion thread read last: its kind, its socket and
\* what the skew compensation returned for it
SkewAudioIn ==
  \E wellformed \in BOOLEAN, ret \in SkewOf(mountpoints["mp1"].source),
     ext \in Exts(mountpoints["mp1"]) :
    /\ sender.n < SkewPackets
    /\ IngestAudio("mp1", wellformed, SourceSsrc, TRUE, ret, ext)
    /\ pc' = [input |-> Datagram(mountpoints["mp1"].source, wellformed, TRUE),
              video |-> FALSE, ret |-> ret]

SkewVideoIn ==
  \E wellformed \in BOOLEAN, ret \in VSkewOf(mountpoints["mp1"].source),
     newframe \in BOOLEAN, ext \in Exts(mountpoints["mp1"]) :
    /\ sender.n < SkewPackets
    /\ IngestVideo("mp1", wellformed, SourceSsrc, TRUE, ret, newframe, FALSE, 0,
                   NoSvcInfo, ext)
    /\ pc' = [input |-> Datagram(mountpoints["mp1"].source, wellformed, TRUE),
              video |-> TRUE, ret |-> ret]

\* a mountpoint with audio and video and skew compensation for both, served
\* directly or by a helper, recorded or not, enabled or not
InitSkew ==
  /\ \E t \in {0, 1} :
       mountpoints = [m \in {"mp1"} |->
         NewMountpoint([BaseConfig EXCEPT !.video = TRUE, !.askew = TRUE,
                                          !.vskew = TRUE, !.threads = t])]
  /\ sessions = [s \in {"s1"} |-> NewSession]
  /\ now = SvcFallback
  /\ sender = [n |-> 0, seq |-> FirstSeq, ts |-> 0]
  /\ calls = << >>
  /\ handled = Nothing
  /\ delivered = << >>
  /\ eligible = << >>
  /\ alloc = NewAlloc
  /\ pc = [input |-> "", video |-> FALSE, ret |-> 0]
  /\ locks = NoLocks

NextSkew ==
  \/ SkewAudioIn
  \/ SkewVideoIn
  \/ Helpers /\ UNCHANGED pc
  \/ Join({2}) /\ UNCHANGED pc
  \/ Enable("mp1") /\ UNCHANGED pc
  \/ Disable("mp1") /\ UNCHANGED pc
  \/ \E audio, video \in BOOLEAN : StartRecording("mp1", audio, video)

SpecSkew == InitSkew /\ [][NextSkew]_vars

\* the sequence number janus_rtp_header_update alone gives the datagram the
\* source sends next
UpdatedSeq(video) ==
  LET u == janus_rtp_header_update(Header(SourceSsrc, sender'.ts, sender.seq, 0, FALSE),
                                   mountpoints["mp1"].source.context, video, now)
  IN ntohs(u.header.seq_number)

\* C21: with skew compensation on, a packet the compensation returns a
\* negative count for is dropped: it is not recorded, not fanned out and not
\* queued for a helper, and the sequence numbers of the context are those of
\* the header update alone; a packet it returns a positive count for is
\* recorded if a recorder is open and, on an enabled mountpoint, fanned out
\* (or queued for every helper) with its sequence number that many ahead
C21_SkewDropsOrJumps ==
  [][LET mp == mountpoints["mp1"]
         after == mountpoints'["mp1"]
         video == pc'.video
         rec == IF video THEN mp.source.vrc ELSE mp.source.arc
         ctx == IF video THEN after.source.context.v ELSE after.source.context.a
     IN sender'.n # sender.n /\ pc'.input = "ok" /\ (mp.enabled \/ rec) =>
          /\ pc'.ret < 0 =>
               /\ calls' = << >> /\ handled' = Nothing
               /\ after.threads = mp.threads
               /\ after.source.saved = mp.source.saved
               /\ ctx.last_seq = UpdatedSeq(video)
          /\ pc'.ret > 0 =>
               /\ rec => after.source.saved = Append(mp.source.saved, sender'.n)
               /\ mp.enabled =>
                    /\ handled'.id = sender'.n
                    /\ after.source.packet.seq_number = (UpdatedSeq(video) + pc'.ret) % Seq16
                    /\ \A h \in DOMAIN mp.threads :
                         /\ Len(after.threads[h].queued_packets)
                              = Len(mp.threads[h].queued_packets) + 1
                         /\ after.threads[h].queued_packets[Len(after.threads[h].queued_packets)].seq_number
                              = (UpdatedSeq(video) + pc'.ret) % Seq16]_vars

\* a video packet the compensation returned a positive count for went to a
\* started viewer of an enabled, recorded mountpoint, after one that was
\* dropped
C21_Witness ==
  /\ pc.input = "ok" /\ pc.video /\ pc.ret > 0
  /\ handled.id = sender.n /\ sender.n >= 2
  /\ mountpoints["mp1"].enabled /\ mountpoints["mp1"].source.vrc
  /\ sessions["s1"].started
  /\ \E i \in 1..Len(calls) : calls[i].call.fn = "relay_rtp" /\ calls[i].call.video
  /\ Len(mountpoints["mp1"].source.saved) < sender.n

(***************************************************************************)
(* RTCP feedback to the source: the PLI that viewers, setup_media and the  *)
(* ingestion loop ask for, statement by statement                          *)
(***************************************************************************)
\* the relay engine, the allocator and the mutexes where a specification
\* has no use for them
NoRelay ==
  /\ mountpoints = << >>
  /\ sessions = << >>
  /\ sender = [n |-> 0, seq |-> FirstSeq, ts |-> 0]
  /\ calls = << >>
  /\ handled = Nothing
  /\ delivered = << >>
  /\ eligible = << >>
  /\ alloc = NewAlloc
  /\ locks = NoLocks

\* a step of the feedback threads
RtcpStep ==
  /\ calls' = << >>
  /\ handled' = Nothing
  /\ UNCHANGED << mountpoints, sessions, sender, delivered, eligible, alloc, locks >>

\* the threads that call janus_streaming_rtcp_pli_send: the gateway threads
\* of the viewers (incoming_rtcp, setup_media) and the ingestion thread
PliCallers == Sessions \cup {"relay"}

\* no time yet: before every time of the clock
Never == 0 - 1

\* a compare-and-exchange that always finds the expected value
CasAlways(value, expected) == TRUE

\* g_atomic_int_compare_and_exchange(&value, expected, ...) succeeds
Cas(value, expected) == value = expected

\* "if(source == NULL || source->video_rtcp_fd < 0 ||
\* source->video_rtcp_addr.ss_family == 0) return;"
NoRtcp(source) == ~source.latched

\* a throttled call that leaves no note
ThrottledForgotten(source) == source

\* "We just sent a PLI less than a second ago, schedule a new delivery later"
Throttled(source) == [source EXCEPT !.need_pli = 1]

\* a viewer sends a PLI or a FIR, or its PeerConnection comes up:
\* janus_streaming_rtcp_pli_send up to the compare-and-exchange; a call that
\* loses it returns at once
PliCall(s) ==
  /\ pc.at[s] = "idle"
  /\ ~NoRtcp(pc.source)
  /\ Cas(pc.source.sending_pli, 0)
  /\ pc' = [pc EXCEPT !.source.sending_pli = 1, !.at[s] = "now"]
  /\ UNCHANGED now
  /\ RtcpStep

\* the top of the ingestion loop: "if(g_atomic_int_get(&source->need_pli))
\* janus_streaming_rtcp_pli_send(source);", up to the compare-and-exchange
PliLoop ==
  /\ pc.at["relay"] = "loop"
  /\ pc' = IF pc.source.need_pli = 1 /\ ~NoRtcp(pc.source)
              /\ Cas(pc.source.sending_pli, 0)
           THEN [pc EXCEPT !.source.sending_pli = 1, !.at["relay"] = "now"]
           ELSE [pc EXCEPT !.at["relay"] = "poll"]
  /\ UNCHANGED now
  /\ RtcpStep

\* the rest of the iteration: poll and the descriptors
PliPoll ==
  /\ pc.at["relay"] = "poll"
  /\ pc' = [pc EXCEPT !.at["relay"] = "loop"]
  /\ UNCHANGED now
  /\ RtcpStep

\* "gint64 now = janus_get_monotonic_time(); if(now - source->pli_latest <
\* G_USEC_PER_SEC) { need_pli = 1; ..."
PliNow(t) ==
  /\ pc.at[t] = "now"
  /\ pc' = IF now - pc.source.pli_latest < G_USEC_PER_SEC
           THEN [pc EXCEPT !.source = Throttled(@), !.at[t] = "throttled",
                           !.pending = IF @ < 2 THEN @ + 1 ELSE @]
           ELSE [pc EXCEPT !.at[t] = "stamp"]
  /\ UNCHANGED now
  /\ RtcpStep

\* "g_atomic_int_set(&source->need_pli, 0); source->pli_latest =
\* janus_get_monotonic_time();"
PliStamp(t) ==
  /\ pc.at[t] = "stamp"
  /\ pc' = [pc EXCEPT !.source.need_pli = 0, !.source.pli_latest = now,
                      !.at[t] = "send", !.pending = 0, !.covered = pc.pending,
                      !.stamp_prev = pc.source.pli_latest]
  /\ UNCHANGED now
  /\ RtcpStep

\* sendto(source->video_rtcp_fd, ...)
PliSend(t) ==
  /\ pc.at[t] = "send"
  /\ pc' = [pc EXCEPT !.at[t] = "sent", !.sent_prev = pc.sent_last,
                      !.sent_last = now]
  /\ UNCHANGED now
  /\ RtcpStep

\* "g_atomic_int_set(&source->sending_pli, 0);" and the return
PliRelease(t) ==
  /\ pc.at[t] \in {"throttled", "sent"}
  /\ pc' = [pc EXCEPT !.source.sending_pli = 0,
                      !.at[t] = IF t = "relay" THEN "poll" ELSE "idle"]
  /\ UNCHANGED now
  /\ RtcpStep

\* a "configure" request that changes the substream or the layer of a
\* simulcast viewer: "g_atomic_int_set(&source->need_pli, 1);"
PliConfigure ==
  /\ pc.source.need_pli = 0
  /\ pc' = [pc EXCEPT !.source.need_pli = 1]
  /\ UNCHANGED now
  /\ RtcpStep

\* the monotonic clock, in ticks of which G_USEC_PER_SEC make a second
PliTick ==
  /\ now < PliTime
  /\ now' = now + 1
  /\ UNCHANGED pc
  /\ RtcpStep

\* a source whose RTCP address is latched or not; the clock has run for a
\* second and no PLI was sent yet
InitPli ==
  /\ \E latched \in BOOLEAN :
       pc = [source |-> [sending_pli |-> 0, need_pli |-> 0, pli_latest |-> 0,
                         latched |-> latched],
             at |-> [t \in PliCallers |-> IF t = "relay" THEN "loop" ELSE "idle"],
             \* the calls throttled since the last PLI (two stands for more),
             \* and how many of them the last PLI came after
             pending |-> 0, covered |-> 0,
             stamp_prev |-> Never, sent_prev |-> Never, sent_last |-> Never]
  /\ now = G_USEC_PER_SEC
  /\ NoRelay

NextPli ==
  \/ \E s \in Sessions : PliCall(s)
  \/ PliLoop
  \/ PliPoll
  \/ \E t \in PliCallers : PliNow(t)
  \/ \E t \in PliCallers : PliStamp(t)
  \/ \E t \in PliCallers : PliSend(t)
  \/ \E t \in PliCallers : PliRelease(t)
  \/ PliConfigure
  \/ PliTick

SpecPli == InitPli /\ [][NextPli]_vars

\* the ingestion loop keeps running, a thread inside the call goes on, and
\* the clock advances
SpecPliFair ==
  /\ SpecPli
  /\ WF_vars(PliLoop) /\ WF_vars(PliPoll) /\ WF_vars(PliTick)
  /\ \A t \in PliCallers :
       WF_vars(PliNow(t)) /\ WF_vars(PliStamp(t)) /\ WF_vars(PliSend(t))
         /\ WF_vars(PliRelease(t))

\* the callers between the compare-and-exchange and the release
Inside ==
  { t \in PliCallers : pc.at[t] \in {"now", "throttled", "stamp", "send", "sent"} }

\* C22 as stated: two PLIs are never sent less than a second apart, and at
\* most one caller is inside the send section
C22_PliSendsASecondApart ==
  /\ Cardinality(Inside) <= 1
  /\ pc.sent_prev # Never => pc.sent_last - pc.sent_prev >= G_USEC_PER_SEC

\* C22 as the code keeps it: at most one caller is inside the send section,
\* the times source->pli_latest takes are at least a second apart, and every
\* PLI is sent at or after the time taken for it
C22_PliStampsASecondApart ==
  /\ Cardinality(Inside) <= 1
  /\ pc.stamp_prev # Never => pc.source.pli_latest - pc.stamp_prev >= G_USEC_PER_SEC
  /\ \A t \in PliCallers : pc.at[t] = "sent" => pc.sent_last >= pc.source.pli_latest

\* a second PLI was sent, by the ingestion loop, while a viewer was turned
\* away at the compare-and-exchange
C22_Witness ==
  /\ pc.sent_prev # Never /\ pc.at["relay"] = "sent"
  /\ pc.source.pli_latest - pc.stamp_prev >= G_USEC_PER_SEC
  /\ pc.source.sending_pli = 1

\* C23: a throttled call is not lost: while calls wait the need-PLI flag is
\* set, and once a second has passed since the last PLI and the address is
\* latched, the ingestion loop (or a caller that gets in before it) sends
\* one PLI for all of them, which leaves no call waiting and the flag clear
C23_ThrottledPliIsSent ==
  /\ [](pc.pending > 0 => pc.source.need_pli = 1 /\ pc.source.latched)
  /\ (pc.pending > 0 /\ now - pc.source.pli_latest >= G_USEC_PER_SEC)
       ~> (pc.pending = 0 /\ pc.source.need_pli = 0 /\ pc.covered > 0
             /\ \E t \in PliCallers : pc.at[t] = "send")

\* the ingestion loop sends the PLI that two throttled calls waited for
C23_Witness ==
  /\ pc.at["relay"] = "send" /\ pc.covered = 2
  /\ pc.pending = 0 /\ pc.source.need_pli = 0
  /\ now - pc.stamp_prev >= G_USEC_PER_SEC

(***************************************************************************)
(* RTCP feedback to the source: the REMB, statement by statement.          *)
(* source->lowest_bitrate is a plain field that the viewers' gateway       *)
(* threads and the ingestion thread read and write without a lock          *)
(***************************************************************************)
\* the bitrates a viewer reports
Bitrates == 1..MaxBitrate

\* the threads of the REMB: the viewers' gateway threads and the ingestion
\* thread
RembThreads == Sessions \cup {"relay"}

\* the lowest of the bitrates
Lowest(S) == CHOOSE b \in S : \A c \in S : b <= c

\* "if((0 == source->lowest_bitrate) || (source->lowest_bitrate > bw))"
IsLower(lowest_bitrate, bw) == lowest_bitrate = 0 \/ lowest_bitrate > bw

\* janus_streaming_incoming_rtcp with a REMB of bw > 0: the test of
\* "Keep track of this value, if this is the lowest right now"; a report
\* that is not lower is done with here
RembReport(s, bw) ==
  /\ pc.at[s] = "idle"
  /\ pc' = IF IsLower(pc.source.lowest_bitrate, bw)
           THEN [pc EXCEPT !.at[s] = "write", !.bw[s] = bw]
           ELSE [pc EXCEPT !.since = @ \cup {bw}]
  /\ UNCHANGED now
  /\ RtcpStep

\* "source->lowest_bitrate = bw;"
RembWrite(s) ==
  /\ pc.at[s] = "write"
  /\ pc' = [pc EXCEPT !.source.lowest_bitrate = pc.bw[s], !.at[s] = "idle",
                      !.bw[s] = 0, !.since = @ \cup {pc.bw[s]}]
  /\ UNCHANGED now
  /\ RtcpStep

\* the top of the ingestion loop: "if(source->video_rtcp_fd > -1 &&
\* source->lowest_bitrate > 0)": the first time takes the time, later ones
\* call janus_streaming_rtcp_remb_send once a second has passed
RembLoop ==
  /\ pc.at["relay"] = "loop"
  /\ pc' = IF pc.source.lowest_bitrate > 0
           THEN IF pc.source.remb_latest = 0
                THEN [pc EXCEPT !.source.remb_latest = now, !.at["relay"] = "poll"]
                ELSE IF now - pc.source.remb_latest >= G_USEC_PER_SEC
                     THEN [pc EXCEPT !.at["relay"] = "stamp"]
                     ELSE [pc EXCEPT !.at["relay"] = "poll"]
           ELSE [pc EXCEPT !.at["relay"] = "poll"]
  /\ UNCHANGED now
  /\ RtcpStep

\* "source->remb_latest = janus_get_monotonic_time();"
RembStamp ==
  /\ pc.at["relay"] = "stamp"
  /\ pc' = [pc EXCEPT !.stamp_prev = pc.source.remb_latest,
                      !.source.remb_latest = now, !.at["relay"] = "build"]
  /\ UNCHANGED now
  /\ RtcpStep

\* "janus_rtcp_remb(rtcp_buf, rtcp_len, source->lowest_bitrate);": the REMB
\* takes the value the field holds now
RembBuild ==
  /\ pc.at["relay"] = "build"
  /\ pc' = [pc EXCEPT !.carried = pc.source.lowest_bitrate, !.covered = pc.since,
                      !.since = {}, !.at["relay"] = "reset"]
  /\ UNCHANGED now
  /\ RtcpStep

\* "Reset the lowest bitrate": "source->lowest_bitrate = 0;"
RembReset ==
  /\ pc.at["relay"] = "reset"
  /\ pc' = [pc EXCEPT !.source.lowest_bitrate = 0, !.at["relay"] = "send"]
  /\ UNCHANGED now
  /\ RtcpStep

\* sendto(source->video_rtcp_fd, ...)
RembSend ==
  /\ pc.at["relay"] = "send"
  /\ pc' = [pc EXCEPT !.at["relay"] = "poll", !.sent = IF @ < 2 THEN @ + 1 ELSE @]
  /\ UNCHANGED now
  /\ RtcpStep

\* the rest of the iteration
RembPoll ==
  /\ pc.at["relay"] = "poll"
  /\ pc' = [pc EXCEPT !.at["relay"] = "loop"]
  /\ UNCHANGED now
  /\ RtcpStep

RembTick ==
  /\ now < RembTime
  /\ now' = now + 1
  /\ UNCHANGED pc
  /\ RtcpStep

\* a source with a latched RTCP address that no viewer has reported to
InitRemb ==
  /\ pc = [source |-> [lowest_bitrate |-> 0, remb_latest |-> 0],
           at |-> [t \in RembThreads |-> IF t = "relay" THEN "loop" ELSE "idle"],
           bw |-> [s \in Sessions |-> 0],
           \* the reports made since the last REMB took its value, the value
           \* that REMB took and the reports that were made before it
           since |-> {}, carried |-> 0, covered |-> {},
           stamp_prev |-> 0, sent |-> 0]
  /\ now = G_USEC_PER_SEC
  /\ NoRelay

NextRemb ==
  \/ \E s \in Sessions, bw \in Bitrates : RembReport(s, bw)
  \/ \E s \in Sessions : RembWrite(s)
  \/ RembLoop
  \/ RembStamp
  \/ RembBuild
  \/ RembReset
  \/ RembSend
  \/ RembPoll
  \/ RembTick

SpecRemb == InitRemb /\ [][NextRemb]_vars

\* C24: a REMB carries the lowest bitrate that viewers reported since the
\* REMB before it took its value, so that no report is lost; the field is
\* zero once the REMB is sent; and the times taken for two REMBs are at least
\* a second apart
C24_RembCarriesLowest ==
  /\ pc.at["relay"] \in {"reset", "send"} /\ pc.covered # {}
       => pc.carried = Lowest(pc.covered)
  /\ pc.stamp_prev # 0 => pc.source.remb_latest - pc.stamp_prev >= G_USEC_PER_SEC

\* a second REMB is about to be sent, after both viewers reported again
C24_Witness ==
  /\ pc.at["relay"] = "send" /\ pc.sent >= 1
  /\ pc.covered = Bitrates
  /\ pc.source.remb_latest - pc.stamp_prev >= G_USEC_PER_SEC

(***************************************************************************)
(* The collision guard: a second sender on the port of a stream            *)
(***************************************************************************)
\* the SSRCs of the datagrams: any 32-bit value is a valid SSRC, zero too
CollisionSsrcs == {0, SourceSsrc, OtherSsrc}

\* whether the datagram was accepted as (part of) the stream: it is then the
\* last one received
Accepted(source, video, ssrc) ==
  IF video THEN source.v_last_ssrc = ssrc /\ source.last_received_video = now
  ELSE source.a_last_ssrc = ssrc /\ source.last_received_audio = now

\* the datagram read last, and whether a datagram was accepted on the audio
\* and on the video socket so far
CollisionAudioIn ==
  \E wellformed \in BOOLEAN, ssrc \in CollisionSsrcs, ext \in Exts(mountpoints["mp1"]) :
    /\ IngestAudio("mp1", wellformed, ssrc, TRUE, 0, ext)
    /\ pc' = [pc EXCEPT !.input = Datagram(mountpoints["mp1"].source, wellformed, TRUE),
                        !.video = FALSE, !.ssrc = ssrc,
                        !.audio_seen = @ \/ (wellformed
                           /\ Accepted(mountpoints'["mp1"].source, FALSE, ssrc))]

CollisionVideoIn ==
  \E wellformed \in BOOLEAN, ssrc \in CollisionSsrcs, ext \in Exts(mountpoints["mp1"]) :
    /\ IngestVideo("mp1", wellformed, ssrc, TRUE, 0, TRUE, FALSE, 0, NoSvcInfo, ext)
    /\ pc' = [pc EXCEPT !.input = Datagram(mountpoints["mp1"].source, wellformed, TRUE),
                        !.video = TRUE, !.ssrc = ssrc,
                        !.video_seen = @ \/ (wellformed
                           /\ Accepted(mountpoints'["mp1"].source, TRUE, ssrc))]

\* a mountpoint with audio and video and a collision guard of CollisionWindow
InitCollision ==
  /\ mountpoints = [m \in {"mp1"} |->
       NewMountpoint([BaseConfig EXCEPT !.video = TRUE,
                                        !.rtp_collision = CollisionWindow])]
  /\ sessions = [s \in {"s1"} |-> NewSession]
  /\ now = SvcFallback
  /\ sender = [n |-> 0, seq |-> FirstSeq, ts |-> 0]
  /\ calls = << >>
  /\ handled = Nothing
  /\ delivered = << >>
  /\ eligible = << >>
  /\ alloc = NewAlloc
  /\ pc = [input |-> "", video |-> FALSE, ssrc |-> 0,
           audio_seen |-> FALSE, video_seen |-> FALSE]
  /\ locks = NoLocks

NextCollision ==
  \/ CollisionAudioIn
  \/ CollisionVideoIn
  \/ Join({2}) /\ UNCHANGED pc
  \/ Tick /\ UNCHANGED pc

SpecCollision == InitCollision /\ [][NextCollision]_vars

\* C25: once a packet of a stream was accepted, a packet with another SSRC
\* that arrives less than the collision window after the last accepted one
\* is dropped: nothing is relayed, and the last SSRC and the time of the last
\* packet stay as they are; the SSRC of the stream changes only when the
\* window has passed
C25_CollisionDropped ==
  [][LET source == mountpoints["mp1"].source
         video == pc'.video
         seen == IF video THEN pc.video_seen ELSE pc.audio_seen
         last_ssrc == IF video THEN source.v_last_ssrc ELSE source.a_last_ssrc
         last_received == IF video THEN source.last_received_video
                          ELSE source.last_received_audio
     IN sender'.n # sender.n /\ pc'.input = "ok" /\ seen /\ pc'.ssrc # last_ssrc
          /\ now - last_received < source.rtp_collision
        => /\ mountpoints' = mountpoints
           /\ calls' = << >> /\ handled' = Nothing]_vars

\* a started viewer, and an audio packet of a second sender that was dropped
\* within the window after one that was relayed
C25_Witness ==
  /\ pc.input = "ok" /\ ~pc.video /\ pc.audio_seen
  /\ mountpoints["mp1"].source.a_last_ssrc = SourceSsrc /\ pc.ssrc = OtherSsrc
  /\ now - mountpoints["mp1"].source.last_received_audio = CollisionWindow - 1
  /\ handled = Nothing /\ sender.n >= 2
  /\ sessions["s1"].started

(***************************************************************************)
(* The keyframe buffer and the frames of the source: a frame is a run of   *)
(* packets with one timestamp, a keyframe a frame whose first packet       *)
(* starts one                                                              *)
(***************************************************************************)
\* the frame the source is sending (its packets so far and whether it is a
\* keyframe) and the packets of the last keyframe it has completed
FramesAfter(frames, id, newframe, keyframe) ==
  IF newframe
  THEN [frame |-> [ids |-> << id >>, key |-> keyframe],
        completed |-> IF frames.frame.key THEN frames.frame.ids ELSE frames.completed]
  ELSE [frames EXCEPT !.frame.ids = Append(@, id)]

\* a video datagram: the first packet of a frame or a later one; only the
\* first packet of a keyframe is one the codec's test recognizes
FrameIn ==
  \E newframe \in BOOLEAN, keyframe \in BOOLEAN, ext \in Exts(mountpoints["mp1"]) :
    /\ keyframe => newframe
    /\ sender.n = 0 => newframe
    /\ IngestVideo("mp1", TRUE, SourceSsrc, TRUE, 0, newframe, keyframe, 0, NoSvcInfo, ext)
    /\ pc' = FramesAfter(pc, sender.n + 1, newframe, keyframe)

\* a mountpoint with video and a keyframe buffer
InitFrames ==
  /\ mountpoints = [m \in {"mp1"} |->
       NewMountpoint([BaseConfig EXCEPT !.video = TRUE, !.bufferkf = TRUE])]
  /\ sessions = [s \in {"s1"} |-> NewSession]
  /\ now = SvcFallback
  /\ sender = [n |-> 0, seq |-> FirstSeq, ts |-> 0]
  /\ calls = << >>
  /\ handled = Nothing
  /\ delivered = << >>
  /\ eligible = << >>
  /\ alloc = NewAlloc
  /\ pc = [frame |-> [ids |-> << >>, key |-> FALSE], completed |-> << >>]
  /\ locks = NoLocks

NextFrames ==
  \/ FrameIn
  \/ Join({2}) /\ UNCHANGED pc
  \/ Enable("mp1") /\ UNCHANGED pc
  \/ Disable("mp1") /\ UNCHANGED pc

SpecFrames == InitFrames /\ [][NextFrames]_vars

\* C26: the latest keyframe changes only on a video packet whose timestamp
\* is not that of the keyframe being saved, and after every step it holds
\* the packets of the keyframe the source completed last, in the order of
\* their arrival
C26_LatestIsLastCompletedKeyframe ==
  [][LET kf == mountpoints["mp1"].source.keyframe
         after == mountpoints'["mp1"].source.keyframe
     IN /\ after.latest_keyframe # kf.latest_keyframe
             => /\ sender'.n # sender.n
                /\ kf.temp_ts > 0 /\ sender'.ts # kf.temp_ts
                /\ KfIds(after.latest_keyframe) = KfIds(kf.temp_keyframe)
        /\ KfIds(after.latest_keyframe) = pc'.completed]_vars

\* the buffer holds a keyframe of two packets that the source completed, and
\* the source is sending a frame that is no keyframe
C26_Witness ==
  /\ Len(pc.completed) = 2
  /\ KfIds(mountpoints["mp1"].source.keyframe.latest_keyframe) = pc.completed
  /\ ~pc.frame.key /\ pc.frame.ids # << >>
  /\ mountpoints["mp1"].source.keyframe.temp_ts = 0

(***************************************************************************)
(* The ingestion loop of an RTSP mountpoint: the reconnect after five      *)
(* seconds without media                                                   *)
(***************************************************************************)
\* the descriptors of a source, and the loop's local copies of them
RtspFds == {"audio_fd", "video_fd", "data_fd", "audio_rtcp_fd", "video_rtcp_fd"}

\* the descriptors the loop waits for media on
RtspMediaFds == {"audio_fd", "video_fd", "data_fd"}

\* the sockets the n-th connection to the server allocates: an RTP and an
\* RTCP socket for audio and for video, and none for data
RtspSockets(n) ==
  [fd \in RtspFds |->
     CASE fd = "audio_fd" -> 4 * n
       [] fd = "audio_rtcp_fd" -> 4 * n + 1
       [] fd = "video_fd" -> 4 * n + 2
       [] fd = "video_rtcp_fd" -> 4 * n + 3
       [] OTHER -> 0 - 1]

\* the descriptors that are open
OpenFds(fds) == { fds[fd] : fd \in { f \in RtspFds : fds[f] > 0 - 1 } }

\* a cleanup that forgets the RTCP sockets
ClosedMedia(fds) == [fd \in RtspFds |-> IF fd \in RtspMediaFds THEN 0 - 1 ELSE fds[fd]]

\* "if(source->audio_fd > -1) { close(source->audio_fd); }
\* source->audio_fd = -1; ..." for every descriptor of the source
Closed(fds) == [fd \in RtspFds |-> 0 - 1]

\* a step of the loop: the viewers are not touched
RtspStep ==
  /\ calls' = << >>
  /\ handled' = Nothing
  /\ UNCHANGED << mountpoints, sessions, sender, delivered, eligible, alloc, locks >>

\* the top of the loop with the timer run out: "5 seconds passed and no
\* media?": the local media descriptors are forgotten, the source is marked
\* reconnecting and all its sockets are closed
RtspDrop ==
  /\ pc.at = "while" /\ ~pc.source.reconnecting
  /\ now - pc.source.reconnect_timer > 5 * G_USEC_PER_SEC
  /\ pc' = [pc EXCEPT !.at = "connect",
                      !.fds = [fd \in RtspFds |->
                                 IF fd \in RtspMediaFds THEN 0 - 1 ELSE pc.fds[fd]],
                      !.source.reconnect_timer = now,
                      !.source.reconnecting = TRUE,
                      !.source.fds = Closed(@),
                      !.open = @ \ (OpenFds(pc.source.fds) \ OpenFds(Closed(pc.source.fds)))]
  /\ UNCHANGED now
  /\ RtspStep

\* "Now let's try to reconnect": janus_streaming_rtsp_connect_to_server
\* fails (its sockets are closed again), or it succeeds and PLAY fails, or
\* both succeed and the loop takes the new descriptors
RtspConnect(result) ==
  /\ pc.at = "connect"
  /\ pc.attempts < RtspAttempts
  /\ LET sockets == RtspSockets(pc.attempts + 2)
     IN pc' = [pc EXCEPT !.at = "while",
                         !.attempts = @ + 1,
                         !.result = result,
                         !.source.fds = IF result = "failed" THEN @ ELSE sockets,
                         !.open = IF result = "failed" THEN @ ELSE @ \cup OpenFds(sockets),
                         !.fds = IF result = "ok" THEN sockets ELSE @,
                         !.source.reconnect_timer = now,
                         !.source.reconnecting = FALSE]
  /\ UNCHANGED now
  /\ RtspStep

\* the top of the loop with the timer still running: without a media
\* socket the loop sleeps and starts over, with one it polls
RtspWhile ==
  /\ pc.at = "while" /\ ~pc.source.reconnecting
  /\ ~(now - pc.source.reconnect_timer > 5 * G_USEC_PER_SEC)
  /\ pc' = [pc EXCEPT !.at = IF \A fd \in RtspMediaFds : pc.fds[fd] < 0
                             THEN "usleep" ELSE "poll"]
  /\ UNCHANGED now
  /\ RtspStep

\* "g_usleep(5000000); continue;"
RtspSleep ==
  /\ pc.at = "usleep"
  /\ now + 5 * G_USEC_PER_SEC <= RtspSeconds * G_USEC_PER_SEC
  /\ now' = now + 5 * G_USEC_PER_SEC
  /\ pc' = [pc EXCEPT !.at = "while"]
  /\ RtspStep

\* poll and the descriptors it reports: a packet on a media socket restarts
\* the timer
RtspPoll(received) ==
  /\ pc.at = "poll"
  /\ pc' = [pc EXCEPT !.at = "while",
                      !.source.reconnect_timer = IF received THEN now ELSE @]
  /\ UNCHANGED now
  /\ RtspStep

\* a second of the clock
RtspTick ==
  /\ now + G_USEC_PER_SEC <= RtspSeconds * G_USEC_PER_SEC
  /\ now' = now + G_USEC_PER_SEC
  /\ UNCHANGED pc
  /\ RtspStep

\* an RTSP mountpoint that is connected and playing, and two sessions
InitRtsp ==
  /\ mountpoints = [m \in {"mp1"} |-> NewMountpoint([BaseConfig EXCEPT !.video = TRUE])]
  /\ sessions = [s \in Sessions |-> NewSession]
  /\ now = G_USEC_PER_SEC
  /\ sender = [n |-> 0, seq |-> FirstSeq, ts |-> 0]
  /\ calls = << >>
  /\ handled = Nothing
  /\ delivered = << >>
  /\ eligible = << >>
  /\ alloc = NewAlloc
  /\ pc = [at |-> "while", fds |-> RtspSockets(1), open |-> OpenFds(RtspSockets(1)),
           source |-> [fds |-> RtspSockets(1), reconnecting |-> FALSE,
                       reconnect_timer |-> G_USEC_PER_SEC],
           attempts |-> 0, result |-> ""]
  /\ locks = NoLocks

NextRtsp ==
  \/ RtspDrop
  \/ \E result \in {"failed", "noplay", "ok"} : RtspConnect(result)
  \/ RtspWhile
  \/ RtspSleep
  \/ \E received \in BOOLEAN : RtspPoll(received)
  \/ RtspTick
  \/ Join({2}) /\ UNCHANGED pc
  \/ \E s \in Sessions : sessions[s].mountpoint # NoMountpoint /\ Hangup(s) /\ UNCHANGED pc

SpecRtsp == InitRtsp /\ [][NextRtsp]_vars

\* C27: the reconnect begins only when more than five seconds have passed
\* since the last packet (or the last attempt); it marks the source
\* reconnecting and leaves every descriptor of the source at -1 with no
\* socket open; after the attempt the source is not reconnecting, its timer
\* is restarted, the loop is at its top again, and the sockets that are open
\* are exactly the descriptors of the source: all closed after a failure,
\* all valid otherwise; the loop polls open sockets only; and no step of
\* the loop changes the viewers of the mountpoint or a session
C27_ReconnectKeepsViewers ==
  [][/\ pc'.at = "connect" /\ pc.at # "connect"
          => /\ now - pc.source.reconnect_timer > 5 * G_USEC_PER_SEC
             /\ pc'.source.reconnecting
             /\ \A fd \in RtspFds : pc'.source.fds[fd] = 0 - 1
             /\ \A fd \in RtspMediaFds : pc'.fds[fd] = 0 - 1
             /\ pc'.open = {}
     /\ pc.at = "connect" /\ pc'.at # "connect"
          => /\ pc'.at = "while" /\ ~pc'.source.reconnecting
             /\ pc'.source.reconnect_timer = now
             /\ pc'.open = OpenFds(pc'.source.fds)
             /\ pc'.result = "failed" => pc'.open = {}
             /\ pc'.result # "failed" =>
                  \A fd \in RtspFds \ {"data_fd"} : pc'.source.fds[fd] \in pc'.open
     /\ pc'.at = "poll" => OpenFds(pc'.fds) \subseteq pc'.open
     /\ pc' # pc => mountpoints' = mountpoints /\ sessions' = sessions]_vars

\* a second attempt succeeded after one that failed, while a viewer that
\* was started before the first is still attached and started
C27_Witness ==
  /\ pc.attempts = 2 /\ pc.result = "ok" /\ pc.at = "poll"
  /\ pc.fds = RtspSockets(3)
  /\ sessions["s1"].started /\ sessions["s1"].mountpoint = "mp1"
  /\ mountpoints["mp1"].viewers = << "s1" >>

(***************************************************************************)
(* The order in which the threads take a mountpoint's and a session's      *)
(* mutex                                                                   *)
(***************************************************************************)
\* the thread that runs hangup_media for a session
HangupThread(s) == IF s = "s1" THEN "hangup s1" ELSE "hangup s2"

\* the threads that take mutexes: the handler thread of the "watch" and
\* "switch" requests, the thread of a "destroy" request, the ingestion
\* thread of the first mountpoint and the threads that hang up
OrderThreads == {"handler", "destroy", "relay"} \cup { HangupThread(s) : s \in Sessions }

\* the session a "destroy" request arrives on
Requester == "s2"

\* the mutexes in held are released by thread t
Unlocked(held, t) ==
  locks' = [mutex \in DOMAIN locks |-> IF mutex \in held THEN locks[mutex] \ {t}
                                       ELSE locks[mutex]]

\* "watch": the mountpoint is looked up under the registry mutex
OrderWatchLookup(s, m) ==
  /\ pc.handler.at = "idle"
  /\ IF mountpoints[m].registered
     THEN /\ janus_mutex_lock(Registry, "handler")
          /\ pc' = [pc EXCEPT !.handler = [at |-> "watch mountpoint", session |-> s,
                                           oldmp |-> NoMountpoint, mp |-> m]]
     ELSE /\ MutexFree(locks[Registry])
          /\ UNCHANGED << pc, locks >>
  /\ UNCHANGED << mountpoints, sessions >>
  /\ Step

\* "janus_mutex_lock(&mp->mutex);"
OrderWatchMountpoint ==
  /\ pc.handler.at = "watch mountpoint"
  /\ janus_mutex_lock(pc.handler.mp, "handler")
  /\ pc' = [pc EXCEPT !.handler.at = "watch session"]
  /\ UNCHANGED << mountpoints, sessions >>
  /\ Step

\* "janus_mutex_lock(&session->mutex);"
OrderWatchSession ==
  /\ pc.handler.at = "watch session"
  /\ janus_mutex_lock(pc.handler.session, "handler")
  /\ pc' = [pc EXCEPT !.handler.at = "watch"]
  /\ UNCHANGED << mountpoints, sessions >>
  /\ Step

\* the registry mutex is released; a session that watches something
\* already is refused, any other becomes a viewer; the session's and then
\* the mountpoint's mutex are released
OrderWatch ==
  LET h == pc.handler
      mp == mountpoints[h.mp]
  IN /\ h.at = "watch"
     /\ IF sessions[h.session].mountpoint # NoMountpoint
           \/ h.session \in SeqToSet(mp.viewers)
        THEN UNCHANGED << mountpoints, sessions >>
        ELSE /\ sessions' = [sessions EXCEPT ![h.session].mountpoint = h.mp,
                                             ![h.session].stopping = FALSE]
             /\ mountpoints' = [mountpoints EXCEPT ![h.mp] = AddViewer(mp, h.session)]
     /\ Unlocked({Registry, h.session, h.mp}, "handler")
     /\ pc' = [pc EXCEPT !.handler = [at |-> "idle"]]
     /\ Step

\* "switch": the session's mutex is taken, and released at once when the
\* session watches nothing
OrderSwitchBegin(s, m) ==
  /\ pc.handler.at = "idle"
  /\ IF sessions[s].mountpoint = NoMountpoint
     THEN /\ MutexFree(locks[s])
          /\ UNCHANGED << pc, locks >>
     ELSE /\ janus_mutex_lock(s, "handler")
          /\ pc' = [pc EXCEPT !.handler = [at |-> "switch registry", session |-> s,
                                           oldmp |-> sessions[s].mountpoint, mp |-> m]]
  /\ UNCHANGED << mountpoints, sessions >>
  /\ Step

\* "janus_mutex_lock(&mountpoints_mutex);"
OrderSwitchRegistry ==
  /\ pc.handler.at = "switch registry"
  /\ janus_mutex_lock(Registry, "handler")
  /\ pc' = [pc EXCEPT !.handler.at = "switch lookup"]
  /\ UNCHANGED << mountpoints, sessions >>
  /\ Step

\* the new mountpoint is looked up; found, the session is detached, and
\* either way the registry and the session's mutex are released
OrderSwitchLookup ==
  LET h == pc.handler
  IN /\ h.at = "switch lookup"
     /\ IF mountpoints[h.mp].registered
        THEN /\ sessions' = [sessions EXCEPT ![h.session].paused = TRUE,
                                             ![h.session].mountpoint = NoMountpoint]
             /\ pc' = [pc EXCEPT !.handler.at = "switch leave"]
        ELSE /\ UNCHANGED sessions
             /\ pc' = [pc EXCEPT !.handler = [at |-> "idle"]]
     /\ Unlocked({Registry, h.session}, "handler")
     /\ UNCHANGED mountpoints
     /\ Step

\* "janus_mutex_lock(&oldmp->mutex);"
OrderSwitchLeave ==
  /\ pc.handler.at = "switch leave"
  /\ janus_mutex_lock(pc.handler.oldmp, "handler")
  /\ pc' = [pc EXCEPT !.handler.at = "switch left"]
  /\ UNCHANGED << mountpoints, sessions >>
  /\ Step

\* "Unsubscribe from the previous mountpoint", and its mutex is released
OrderSwitchLeft ==
  LET h == pc.handler
  IN /\ h.at = "switch left"
     /\ mountpoints' = [mountpoints EXCEPT ![h.oldmp] = Unsubscribed(@, h.session)]
     /\ janus_mutex_unlock(h.oldmp, "handler")
     /\ pc' = [pc EXCEPT !.handler.at = "switch enter"]
     /\ UNCHANGED sessions
     /\ Step

\* "Subscribe to the new one": "janus_mutex_lock(&mp->mutex);"
OrderSwitchEnter ==
  /\ pc.handler.at = "switch enter"
  /\ janus_mutex_lock(pc.handler.mp, "handler")
  /\ pc' = [pc EXCEPT !.handler.at = "switch session"]
  /\ UNCHANGED << mountpoints, sessions >>
  /\ Step

\* "janus_mutex_lock(&session->mutex);"
OrderSwitchSession ==
  /\ pc.handler.at = "switch session"
  /\ janus_mutex_lock(pc.handler.session, "handler")
  /\ pc' = [pc EXCEPT !.handler.at = "switch subscribe"]
  /\ UNCHANGED << mountpoints, sessions >>
  /\ Step

\* the viewer is appended and both mutexes are released
OrderSwitchSubscribe ==
  LET h == pc.handler
      mp == mountpoints[h.mp]
  IN /\ h.at = "switch subscribe"
     /\ mountpoints' = [mountpoints EXCEPT ![h.mp] =
          Subscribed(@, h.session, SwitchHelper(mp.threads, 1, 0, 0))]
     /\ sessions' = [sessions EXCEPT ![h.session].mountpoint = h.mp,
                                     ![h.session].paused = FALSE]
     /\ Unlocked({h.session, h.mp}, "handler")
     /\ pc' = [pc EXCEPT !.handler = [at |-> "idle"]]
     /\ Step

\* "destroy": the registry mutex, under which the mountpoint is taken out of
\* the table and marked destroyed
OrderDestroyBegin(m) ==
  /\ pc.destroy.at = "idle"
  /\ mountpoints[m].registered
  /\ janus_mutex_lock(Registry, "destroy")
  /\ mountpoints' = [mountpoints EXCEPT ![m].registered = FALSE, ![m].destroyed = TRUE]
  /\ pc' = [pc EXCEPT !.destroy = [at |-> "join", mp |-> m]]
  /\ UNCHANGED sessions
  /\ Step

\* g_thread_join returns once the ingestion thread has returned
OrderDestroyJoin ==
  /\ pc.destroy.at = "join"
  /\ pc.relay.at = "exited"
  /\ pc' = [pc EXCEPT !.destroy.at = "kick"]
  /\ UNCHANGED << mountpoints, sessions, locks >>
  /\ Step

\* "janus_mutex_lock(&mp->mutex);" before the viewers are kicked
OrderDestroyMountpoint ==
  /\ pc.destroy.at = "kick"
  /\ janus_mutex_lock(pc.destroy.mp, "destroy")
  /\ pc' = [pc EXCEPT !.destroy.at = "viewer"]
  /\ UNCHANGED << mountpoints, sessions >>
  /\ Step

\* with a viewer left "janus_mutex_lock(&session->mutex);", where session is
\* the one the request arrived on; with none the mountpoint's and the
\* registry mutex are released
OrderDestroyViewer ==
  LET m == pc.destroy.mp
  IN /\ pc.destroy.at = "viewer"
     /\ IF mountpoints[m].viewers # << >>
        THEN /\ janus_mutex_lock(Requester, "destroy")
             /\ pc' = [pc EXCEPT !.destroy.at = "kicked"]
        ELSE /\ Unlocked({m, Registry}, "destroy")
             /\ pc' = [pc EXCEPT !.destroy = [at |-> "done", mp |-> m]]
     /\ UNCHANGED << mountpoints, sessions >>
     /\ Step

\* the viewer is told and taken off the list and off its helper
OrderDestroyKick ==
  LET m == pc.destroy.mp
      s == Head(mountpoints[m].viewers)
  IN /\ pc.destroy.at = "kicked"
     /\ sessions' = [sessions EXCEPT ![s] = Kicked(m, @)]
     /\ mountpoints' = [mountpoints EXCEPT ![m] =
          IF sessions[s].mountpoint = m THEN Unsubscribed(@, s)
          ELSE [@ EXCEPT !.viewers = RemoveAll(@, s)]]
     /\ janus_mutex_unlock(Requester, "destroy")
     /\ pc' = [pc EXCEPT !.destroy.at = "viewer"]
     /\ Step

\* the ingestion thread tests its while condition and, in the loop, takes
\* the mountpoint's mutex for the fan-out of a packet
OrderRelayLoop(m) ==
  /\ pc.relay.at = "loop"
  /\ janus_mutex_lock(m, "relay")
  /\ pc' = [pc EXCEPT !.relay.at = IF mountpoints[m].destroyed THEN "viewer" ELSE "relay"]
  /\ UNCHANGED << mountpoints, sessions >>
  /\ Step

\* the packet has gone to the viewers
OrderRelayed(m) ==
  /\ pc.relay.at = "relay"
  /\ janus_mutex_unlock(m, "relay")
  /\ pc' = [pc EXCEPT !.relay.at = "loop"]
  /\ UNCHANGED << mountpoints, sessions >>
  /\ Step

\* "Notify users this mountpoint is done": the first viewer's mutex is
\* taken; with no viewer left the mountpoint's mutex is released
OrderRelayViewer(m) ==
  /\ pc.relay.at = "viewer"
  /\ IF mountpoints[m].viewers # << >>
     THEN /\ janus_mutex_lock(Head(mountpoints[m].viewers), "relay")
          /\ pc' = [pc EXCEPT !.relay.at = "kick"]
     ELSE /\ janus_mutex_unlock(m, "relay")
          /\ pc' = [pc EXCEPT !.relay.at = "exited"]
  /\ UNCHANGED << mountpoints, sessions >>
  /\ Step

\* the viewer is told and taken off the list, its mutex released
OrderRelayKick(m) ==
  LET s == Head(mountpoints[m].viewers)
  IN /\ pc.relay.at = "kick"
     /\ sessions' = [sessions EXCEPT ![s] = Kicked(m, @)]
     /\ mountpoints' = [mountpoints EXCEPT ![m].viewers = RemoveAll(@, s)]
     /\ janus_mutex_unlock(s, "relay")
     /\ pc' = [pc EXCEPT !.relay.at = "viewer"]
     /\ Step

\* hangup_media: under the session's mutex the mountpoint is read and
\* forgotten
OrderHangupSession(s) ==
  /\ pc.hangup[s].at = "idle"
  /\ janus_mutex_lock(s, HangupThread(s))
  /\ pc' = [pc EXCEPT !.hangup[s] = [at |-> "session", mp |-> sessions[s].mountpoint]]
  /\ sessions' = [sessions EXCEPT ![s] = HungUp(@)]
  /\ UNCHANGED mountpoints
  /\ Step

\* "janus_mutex_unlock(&session->mutex);"
OrderHangupUnlock(s) ==
  /\ pc.hangup[s].at = "session"
  /\ janus_mutex_unlock(s, HangupThread(s))
  /\ pc' = [pc EXCEPT !.hangup[s].at = IF pc.hangup[s].mp = NoMountpoint
                                       THEN "idle" ELSE "mountpoint"]
  /\ UNCHANGED << mountpoints, sessions >>
  /\ Step

\* "if(mp) { janus_mutex_lock(&mp->mutex);"
OrderHangupMountpoint(s) ==
  /\ pc.hangup[s].at = "mountpoint"
  /\ janus_mutex_lock(pc.hangup[s].mp, HangupThread(s))
  /\ pc' = [pc EXCEPT !.hangup[s].at = "remove"]
  /\ UNCHANGED << mountpoints, sessions >>
  /\ Step

\* the session is taken off the viewers and off its helper
OrderHangupRemove(s) ==
  LET m == pc.hangup[s].mp
  IN /\ pc.hangup[s].at = "remove"
     /\ mountpoints' = [mountpoints EXCEPT ![m] = Unsubscribed(@, s)]
     /\ janus_mutex_unlock(m, HangupThread(s))
     /\ pc' = [pc EXCEPT !.hangup[s] = [at |-> "idle", mp |-> NoMountpoint]]
     /\ UNCHANGED sessions
     /\ Step

\* two mountpoints, the first with a helper, and two sessions; no mutex held
InitOrder ==
  /\ mountpoints = [m \in {"mp1", "mp2"} |->
       NewMountpoint([BaseConfig EXCEPT !.threads = IF m = "mp1" THEN 1 ELSE 0])]
  /\ sessions = [s \in Sessions |-> NewSession]
  /\ now = 0
  /\ sender = [n |-> 0, seq |-> FirstSeq, ts |-> 0]
  /\ calls = << >>
  /\ handled = Nothing
  /\ delivered = << >>
  /\ eligible = << >>
  /\ alloc = NewAlloc
  /\ pc = [handler |-> [at |-> "idle"], destroy |-> [at |-> "idle"],
           relay |-> [at |-> "loop"],
           hangup |-> [s \in Sessions |-> [at |-> "idle", mp |-> NoMountpoint]]]
  /\ locks = [mutex \in {Registry, "mp1", "mp2"} \cup Sessions |-> {}]

NextOrder ==
  \/ \E s \in Sessions, m \in DOMAIN mountpoints : OrderWatchLookup(s, m)
  \/ OrderWatchMountpoint
  \/ OrderWatchSession
  \/ OrderWatch
  \/ \E s \in Sessions, m \in DOMAIN mountpoints : OrderSwitchBegin(s, m)
  \/ OrderSwitchRegistry
  \/ OrderSwitchLookup
  \/ OrderSwitchLeave
  \/ OrderSwitchLeft
  \/ OrderSwitchEnter
  \/ OrderSwitchSession
  \/ OrderSwitchSubscribe
  \/ OrderDestroyBegin("mp1")
  \/ OrderDestroyJoin
  \/ OrderDestroyMountpoint
  \/ OrderDestroyViewer
  \/ OrderDestroyKick
  \/ OrderRelayLoop("mp1")
  \/ OrderRelayed("mp1")
  \/ OrderRelayViewer("mp1")
  \/ OrderRelayKick("mp1")
  \/ \E s \in Sessions : OrderHangupSession(s)
  \/ \E s \in Sessions : OrderHangupUnlock(s)
  \/ \E s \in Sessions : OrderHangupMountpoint(s)
  \/ \E s \in Sessions : OrderHangupRemove(s)

SpecOrder == InitOrder /\ [][NextOrder]_vars

HelperUnref(helper) ==
  [helper EXCEPT !.ref = @ - 1, !.freed = @ \/ helper.ref = 1,
                 !.stale = @ \/ helper.freed]

\* janus_streaming_mountpoint_free, which runs when the last reference to
\* the mountpoint mp is given back: "Remove the last reference to the
\* helper threads"
HelpersAfter(mp, helpers) ==
  IF mp.ref = 1 THEN [h \in DOMAIN helpers |-> HelperUnref(helpers[h])] ELSE helpers

\* the "destroy" request: the registry mutex, the lookup, the removal from
\* the table and janus_streaming_mountpoint_destroy up to the join: the
\* mountpoint is marked destroyed and the pipe written
HelpDestroyBegin(m) ==
  /\ pc.destroy.at = "idle"
  /\ mountpoints[m].registered
  /\ janus_mutex_lock(Registry, "destroy")
  /\ mountpoints' = [mountpoints EXCEPT ![m] =
       [Ref(@) EXCEPT !.registered = FALSE, !.destroyed = TRUE]]
  /\ pc' = [pc EXCEPT !.destroy.at = "join"]
  /\ UNCHANGED sessions
  /\ Step

\* g_thread_join has returned: every helper is sent the sentinel and
\* destroyed, and the registry's reference is given back
HelpDestroyJoin(m) ==
  LET mp == mountpoints[m]
  IN /\ pc.destroy.at = "join"
     /\ pc.relay.at = "exited"
     /\ mountpoints' = [mountpoints EXCEPT ![m] =
          Unref(HelpersDestroyed([mp EXCEPT !.thread = "joined"]))]
     /\ pc' = [pc EXCEPT !.destroy.at = "kick",
                         !.helpers = HelpersAfter(mp,
                            [h \in DOMAIN @ |->
                               IF mp.threads[h].destroyed THEN @[h] ELSE HelperUnref(@[h])])]
     /\ UNCHANGED << sessions, locks >>
     /\ Step

\* the viewers still listed are kicked under the mountpoint's mutex, the
\* registry mutex is released and the request gives its reference back
HelpDestroyKick(m) ==
  LET mp == mountpoints[m]
  IN /\ pc.destroy.at = "kick"
     /\ MutexFree(locks[m])
     /\ mp.viewers # << >> => MutexFree(locks[Requester])
     /\ sessions' = ExitCleanup(m, mp.viewers, sessions)
     /\ mountpoints' = [mountpoints EXCEPT ![m] =
          Unref(UnrefAll([mp EXCEPT !.viewers = << >>], Cardinality(Kickable(m, mp))))]
     /\ janus_mutex_unlock(Registry, "destroy")
     /\ pc' = [pc EXCEPT !.destroy.at = "done",
                         !.helpers = HelpersAfter(
                            UnrefAll(mp, Cardinality(Kickable(m, mp))), @)]
     /\ Step

\* the ingestion thread in its loop: a packet is cloned into the queue of
\* every helper, under the mountpoint's mutex
HelpRelayPacket(m) ==
  /\ pc.relay.at = "loop"
  /\ sender.n < HelpPackets
  /\ MutexFree(locks[m])
  /\ mountpoints' = [mountpoints EXCEPT ![m].threads =
       [h \in DOMAIN @ |->
          janus_streaming_helper_rtprtcp_packet(@[h], [NoPacket EXCEPT !.id = sender.n + 1])]]
  /\ sender' = [sender EXCEPT !.n = @ + 1]
  /\ calls' = << >>
  /\ handled' = Nothing
  /\ UNCHANGED << sessions, pc, locks, now, delivered, eligible, alloc >>

\* the loop ends on the destroyed flag: "Notify users this mountpoint is
\* done", under the mountpoint's mutex
HelpRelayLeave(m) ==
  /\ pc.relay.at = "loop"
  /\ mountpoints[m].destroyed
  /\ janus_mutex_lock(m, "relay")
  /\ pc' = [pc EXCEPT !.relay.at = "viewer"]
  /\ UNCHANGED << mountpoints, sessions >>
  /\ Step

\* the next viewer's mutex is taken; with no viewer left the mountpoint's
\* mutex is released, the helpers are unreferenced and the thread gives its
\* reference back and returns
HelpRelayViewer(m) ==
  LET mp == mountpoints[m]
  IN /\ pc.relay.at = "viewer"
     /\ IF mp.viewers # << >>
        THEN /\ janus_mutex_lock(Head(mp.viewers), "relay")
             /\ pc' = [pc EXCEPT !.relay.at = "kick"]
             /\ UNCHANGED mountpoints
        ELSE /\ janus_mutex_unlock(m, "relay")
             /\ mountpoints' = [mountpoints EXCEPT ![m] = Unref([mp EXCEPT !.thread = "exited"])]
             /\ pc' = [pc EXCEPT !.relay.at = "exited",
                                 !.helpers = HelpersAfter(mp,
                                    [h \in DOMAIN @ |-> HelperUnref(@[h])])]
     /\ UNCHANGED sessions
     /\ Step

\* the viewer is told and taken off the list; its reference is given back
HelpRelayKick(m) ==
  LET mp == mountpoints[m]
      s == Head(mp.viewers)
      left == [mp EXCEPT !.viewers = RemoveAll(@, s)]
  IN /\ pc.relay.at = "kick"
     /\ sessions' = [sessions EXCEPT ![s] = Kicked(m, @)]
     /\ mountpoints' = [mountpoints EXCEPT ![m] =
          IF sessions[s].mountpoint = m THEN Unref(left) ELSE left]
     /\ janus_mutex_unlock(s, "relay")
     /\ pc' = [pc EXCEPT !.relay.at = "viewer"]
     /\ Step

\* a helper thread tests its while condition
HelpLoop(m, h) ==
  /\ pc.helpers[h].at = "loop"
  /\ pc' = [pc EXCEPT !.helpers[h].at =
       IF mountpoints[m].destroyed \/ mountpoints[m].threads[h].destroyed
       THEN "leave" ELSE "pop"]
  /\ UNCHANGED << mountpoints, sessions, locks >>
  /\ Step

\* g_async_queue_pop returns when the queue holds a packet: the sentinel
\* ends the loop, any other packet goes to the helper's viewers
HelpPop(m, h) ==
  LET queue == mountpoints[m].threads[h].queued_packets
  IN /\ pc.helpers[h].at = "pop"
     /\ queue # << >>
     /\ mountpoints' = [mountpoints EXCEPT ![m].threads[h].queued_packets = Tail(@)]
     /\ pc' = [pc EXCEPT !.helpers[h].at = IF Head(queue) = exit_packet THEN "leave" ELSE "loop",
                         !.helpers[h].woken = Head(queue) = exit_packet]
     /\ UNCHANGED << sessions, locks >>
     /\ Step

\* "Leaving Streaming helper thread": the helper's and the mountpoint's
\* reference are given back
HelpLeave(m, h) ==
  LET mp == mountpoints[m]
  IN /\ pc.helpers[h].at = "leave"
     /\ mountpoints' = [mountpoints EXCEPT ![m] = Unref(mp)]
     /\ pc' = [pc EXCEPT !.helpers =
          HelpersAfter(mp, [@ EXCEPT ![h] = [HelperUnref(@) EXCEPT !.at = "exited"]])]
     /\ UNCHANGED << sessions, locks >>
     /\ Step

\* "switch": the session's mutex is taken and the mountpoint it watches
\* referenced
HelpSwitchBegin(s) ==
  LET m == sessions[s].mountpoint
  IN /\ pc.handler.at = "idle"
     /\ m # NoMountpoint
     /\ janus_mutex_lock(s, "handler")
     /\ mountpoints' = [mountpoints EXCEPT ![m] = Ref(@)]
     /\ pc' = [pc EXCEPT !.handler = [at |-> "switch registry", session |-> s,
                                      oldmp |-> m, mp |-> "mp2"]]
     /\ UNCHANGED sessions
     /\ Step

\* "Unsubscribe from the previous mountpoint" under its mutex: the viewer's
\* reference is given back
HelpSwitchLeft ==
  LET h == pc.handler
      mp == mountpoints[h.oldmp]
  IN /\ h.at = "switch leave"
     /\ MutexFree(locks[h.oldmp])
     /\ mountpoints' = [mountpoints EXCEPT ![h.oldmp] = Unref(Unsubscribed(@, h.session))]
     /\ pc' = [pc EXCEPT !.handler.at = "switch enter",
                         !.helpers = HelpersAfter(mp, @)]
     /\ UNCHANGED << sessions, locks >>
     /\ Step

\* "Subscribe to the new one" under its and the session's mutex, and the
\* request's reference to the old one is given back
HelpSwitchSubscribe ==
  LET h == pc.handler
      mp == mountpoints[h.mp]
      oldmp == mountpoints[h.oldmp]
  IN /\ h.at = "switch enter"
     /\ MutexFree(locks[h.mp]) /\ MutexFree(locks[h.session])
     /\ mountpoints' = [mountpoints EXCEPT
          ![h.mp] = Subscribed(@, h.session, SwitchHelper(mp.threads, 1, 0, 0)),
          ![h.oldmp] = Unref(@)]
     /\ sessions' = [sessions EXCEPT ![h.session].mountpoint = h.mp,
                                     ![h.session].paused = FALSE]
     /\ pc' = [pc EXCEPT !.handler = [at |-> "done"],
                         !.helpers = HelpersAfter(oldmp, @)]
     /\ UNCHANGED locks
     /\ Step

\* the first mountpoint with its helper threads in their loops, each with
\* the references of its creation, the thread and the list; the first
\* session watches it
InitHelp ==
  /\ \E threads \in 1..MaxHelpers :
       /\ mountpoints = [m \in {"mp1", "mp2"} |->
            IF m = "mp1"
            THEN [Counted(AddViewer(NewMountpoint([BaseConfig EXCEPT !.threads = threads]),
                                    "s1")) EXCEPT !.ref = threads + 3]
            ELSE [Counted(NewMountpoint(BaseConfig)) EXCEPT !.ref = 2]]
       /\ pc = [handler |-> [at |-> "idle"], destroy |-> [at |-> "idle"],
                relay |-> [at |-> "loop"],
                helpers |-> [h \in 1..threads |->
                   [at |-> "loop", ref |-> 3, freed |-> FALSE, stale |-> FALSE,
                    woken |-> FALSE]]]
  /\ sessions = [s \in Sessions |->
       IF s = "s1" THEN [NewSession EXCEPT !.mountpoint = "mp1"] ELSE NewSession]
  /\ now = 0
  /\ sender = [n |-> 0, seq |-> FirstSeq, ts |-> 0]
  /\ calls = << >>
  /\ handled = Nothing
  /\ delivered = << >>
  /\ eligible = << >>
  /\ alloc = NewAlloc
  /\ locks = [mutex \in {Registry, "mp1", "mp2"} \cup Sessions |-> {}]

NextHelp ==
  \/ HelpDestroyBegin("mp1")
  \/ HelpDestroyJoin("mp1")
  \/ HelpDestroyKick("mp1")
  \/ HelpRelayPacket("mp1")
  \/ HelpRelayLeave("mp1")
  \/ HelpRelayViewer("mp1")
  \/ HelpRelayKick("mp1")
  \/ \E h \in DOMAIN pc.helpers : HelpLoop("mp1", h)
  \/ \E h \in DOMAIN pc.helpers : HelpPop("mp1", h)
  \/ \E h \in DOMAIN pc.helpers : HelpLeave("mp1", h)
  \/ HelpSwitchBegin("s1")
  \/ OrderSwitchRegistry
  \/ OrderSwitchLookup
  \/ HelpSwitchLeft
  \/ HelpSwitchSubscribe

SpecHelp == InitHelp /\ [][NextHelp]_vars

\* every thread that can go on does: the destroy request, the ingestion
\* thread on its way out, the helpers and a switch once begun
SpecHelpFair ==
  /\ SpecHelp
  /\ WF_vars(HelpDestroyJoin("mp1"))
  /\ WF_vars(HelpDestroyKick("mp1"))
  /\ WF_vars(HelpRelayLeave("mp1"))
  /\ WF_vars(HelpRelayViewer("mp1"))
  /\ WF_vars(HelpRelayKick("mp1"))
  /\ \A h \in 1..MaxHelpers : WF_vars(h \in DOMAIN pc.helpers /\ HelpLoop("mp1", h))
  /\ \A h \in 1..MaxHelpers : WF_vars(h \in DOMAIN pc.helpers /\ HelpPop("mp1", h))
  /\ \A h \in 1..MaxHelpers : WF_vars(h \in DOMAIN pc.helpers /\ HelpLeave("mp1", h))
  /\ WF_vars(OrderSwitchRegistry)
  /\ WF_vars(OrderSwitchLookup)
  /\ WF_vars(HelpSwitchLeft)
  /\ WF_vars(HelpSwitchSubscribe)

\* the sentinel is in a helper's queue only when the ingestion thread has
\* been joined, and a helper is freed only when its thread has given its
\* reference back
SentinelAfterJoin ==
  \A h \in DOMAIN pc.helpers :
    /\ exit_packet \in SeqToSet(mountpoints["mp1"].threads[h].queued_packets)
         => mountpoints["mp1"].thread = "joined"
    /\ pc.helpers[h].woken => mountpoints["mp1"].thread = "joined"
    /\ pc.helpers[h].freed => pc.helpers[h].at = "exited"

\* C29: once the mountpoint is destroyed every helper thread returns
C29_HelpersTerminate ==
  mountpoints["mp1"].destroyed ~> \A h \in DOMAIN pc.helpers : pc.helpers[h].at = "exited"

\* the mountpoint is destroyed and a helper waits on its empty queue, while
\* the destroy request waits for the ingestion thread, the ingestion thread
\* for the mutex of its viewer and the switch of that viewer for the
\* registry mutex
C29_Witness ==
  /\ mountpoints["mp1"].destroyed
  /\ pc.destroy.at = "join" /\ pc.relay.at = "viewer" /\ pc.handler.at = "switch registry"
  /\ locks["s1"] = {"handler"} /\ locks[Registry] = {"destroy"}
  /\ \E h \in DOMAIN pc.helpers :
       pc.helpers[h].at = "pop" /\ mountpoints["mp1"].threads[h].queued_packets = << >>

(***************************************************************************)
(* The temporal layer of an SVC viewer                                     *)
(***************************************************************************)
\* the svc_info values of the packets of this specification: the lowest
\* spatial layer, every temporal layer and every combination of the E, U
\* and B bit
TemporalInfos ==
  { [spatial_layer |-> 0, temporal_layer |-> tl, fbit |-> FALSE, ebit |-> e,
     ubit |-> u, bbit |-> b] :
      tl \in 0..TemporalLayers, e \in BOOLEAN, u \in BOOLEAN, b \in BOOLEAN }

\* a video packet of the SVC source, with the svc_info the loop parsed
TemporalIn ==
  \E info \in TemporalInfos, keyframe \in BOOLEAN, ext \in Exts(mountpoints["mp1"]) :
    /\ IngestVideo("mp1", TRUE, SourceSsrc, TRUE, 0, TRUE, keyframe, 0, info, ext)
    /\ pc' = [info |-> info, keyframe |-> keyframe, id |-> sender.n + 1]

\* "configure" with a temporal_layer: the target is set
ConfigureTemporal(s, temporal) ==
  LET m == sessions[s].mountpoint
  IN /\ m # NoMountpoint
     /\ mountpoints[m].source.svc
     /\ sessions' = [sessions EXCEPT ![s].target_temporal_layer = temporal]
     /\ calls' = << >>
     /\ handled' = Nothing
     /\ UNCHANGED << mountpoints, now, sender, delivered, eligible, aside >>

\* "watch" with a spatial and a temporal layer, and the PeerConnection
TemporalJoin ==
  \/ \E spatial \in 0..1, temporal \in 0..TemporalLayers :
       Watch("s1", "mp1", FALSE, TRUE, TRUE, spatial, temporal)
  \/ janus_streaming_setup_media("s1")

\* an SVC video mountpoint without helpers and one session
InitTemporal ==
  /\ mountpoints = [m \in {"mp1"} |->
       NewMountpoint([BaseConfig EXCEPT !.audio = FALSE, !.video = TRUE, !.svc = TRUE])]
  /\ sessions = [s \in {"s1"} |-> NewSession]
  /\ now = SvcFallback
  /\ sender = [n |-> 0, seq |-> FirstSeq, ts |-> 0]
  /\ calls = << >>
  /\ handled = Nothing
  /\ delivered = << >>
  /\ eligible = << >>
  /\ alloc = NewAlloc
  /\ pc = [info |-> NoSvcInfo, keyframe |-> FALSE, id |-> 0]
  /\ locks = NoLocks

NextTemporal ==
  \/ TemporalIn
  \/ TemporalJoin
  \/ \E temporal \in 0..TemporalLayers : ConfigureTemporal("s1", temporal)

SpecTemporal == InitTemporal /\ [][NextTemporal]_vars

\* the packet of this step rose the achieved temporal layer by its own
\* temporal layer: it has the B and the U bit, and its layer is above the
\* achieved and not above the target
RoseOnPacket ==
  /\ pc'.info.bbit /\ pc'.info.ubit
  /\ pc'.info.temporal_layer > sessions["s1"].temporal_layer
  /\ pc'.info.temporal_layer <= sessions["s1"].target_temporal_layer

\* the achieved temporal layer fell on the packet of this step only if the
\* packet has the E bit and the target's temporal layer, and it fell to the
\* target
FellOnPacket ==
  sessions'["s1"].temporal_layer < sessions["s1"].temporal_layer
    => /\ pc'.info.ebit
       /\ pc'.info.temporal_layer = sessions["s1"].target_temporal_layer
       /\ sessions'["s1"].temporal_layer = sessions["s1"].target_temporal_layer

\* a packet that reaches the SVC branch with a temporal layer above the
\* achieved one is not relayed, and the viewer's v_base_seq is one more
DroppedAbove ==
  /\ sessions["s1"].started /\ ~sessions["s1"].paused /\ sessions["s1"].video
  /\ pc'.info.temporal_layer > sessions'["s1"].temporal_layer
  => /\ \A i \in 1..Len(calls') : calls'[i].call.fn # "relay_rtp"
     /\ sessions'["s1"].context.v.base_seq = (sessions["s1"].context.v.base_seq + 1) % Seq16

\* C30 as stated: the achieved temporal layer rises only on a packet with
\* the B and the U bit whose temporal layer is above the achieved and not
\* above the target, falls to the target only on a packet with the E bit
\* and the target's layer, and a packet above the achieved layer is dropped
\* with v_base_seq incremented
C30_RisesOnlyOnSwitchingPoint ==
  [][pc' # pc =>
       /\ sessions'["s1"].temporal_layer > sessions["s1"].temporal_layer => RoseOnPacket
       /\ FellOnPacket
       /\ DroppedAbove]_vars

\* C30, amended: the achieved temporal layer also rises, from -1 to 0, on
\* the keyframe that raises the spatial layer of a viewer that has just
\* started, whatever the bits and the temporal layer of that packet; every
\* other rise is on a packet with the B and the U bit whose temporal layer
\* is above the achieved and not above the target, and is to that layer
C30_RisesOnSwitchingPointOrStart ==
  [][pc' # pc =>
       /\ sessions'["s1"].temporal_layer > sessions["s1"].temporal_layer =>
            \/ /\ RoseOnPacket
               /\ sessions'["s1"].temporal_layer = pc'.info.temporal_layer
            \/ /\ sessions["s1"].temporal_layer = 0 - 1
               /\ sessions'["s1"].temporal_layer = 0
               /\ pc'.keyframe
               /\ sessions'["s1"].spatial_layer > sessions["s1"].spatial_layer
       /\ FellOnPacket
       /\ DroppedAbove]_vars

\* the viewer went up to temporal layer 2 and, with its target lowered,
\* came down again on a packet with the E bit, and a packet above its layer
\* was dropped
C30_Witness ==
  /\ pc.id = MaxPackets
  /\ sessions["s1"].started
  /\ sessions["s1"].temporal_layer = 0 /\ sessions["s1"].target_temporal_layer = 0
  /\ pc.info.ebit /\ pc.info.temporal_layer = 0
  /\ sessions["s1"].context.v.base_seq > 0

(***************************************************************************)
(* Attachment of viewers with the reference counters of the mountpoints    *)
(* and of the sessions: watch, switch, hangup, destroy and the end of the  *)
(* ingestion and on-demand threads, each request from start to end         *)
(***************************************************************************)
\* the mountpoint "file" is an on-demand file source, the others are live
\* RTP mountpoints
OnDemand(m) == m = "file"

\* the process is up and has requests and callbacks left to serve
Serving == pc.process = "running" /\ pc.requests < MaxRequests

AttStep ==
  /\ calls' = << >>
  /\ handled' = Nothing
  /\ UNCHANGED << now, sender, delivered, eligible, alloc, locks >>

\* an error path that holds no reference: goto error. The steps record
\* which request or callback ran, whether it was answered with an error,
\* and the sessions that were sent a "stopped" event and a close_pc, in order
Refused(fn) ==
  /\ UNCHANGED << sessions, mountpoints >>
  /\ pc' = [pc EXCEPT !.requests = @ + 1, !.fn = fn, !.error = TRUE, !.stopped = << >>]

\* the reference of the lookup is kept by mistake
LostReference(mp) == mp

\* janus_refcount_decrease(&mp->ref) ahead of goto error: the reference of
\* the lookup is given back
WatchError(mp) == Unref(mp)

\* what can go wrong with a "watch" request to a mountpoint that exists
Faults == {"none", "pin", "offer", "parameters", "launch"}

\* the "watch" request with the references it takes and gives back
\* fault is what goes wrong with the request, if anything does: the pin, the
\* media asked for, the simulcast or SVC parameters, or the thread launch
AttWatch(s, m, do_restart, fault) ==
  LET pin_ok == fault # "pin"
      offer == fault # "offer"
      params_ok == fault # "parameters"
      launched == fault # "launch"
      session == sessions[s]
      mp == mountpoints[m]
      looked == Ref(mp)
      offered == [session EXCEPT !.stopping = FALSE, !.audio = offer /\ mp.audio,
                                 !.video = offer /\ mp.video, !.data = offer /\ mp.data]
      layered == IF mp.source.simulcast
                 THEN [offered EXCEPT !.context = janus_rtp_switching_context_reset]
                 ELSE IF mp.source.svc
                 THEN [offered EXCEPT !.spatial_layer = -1, !.target_spatial_layer = 2,
                                      !.temporal_layer = -1, !.target_temporal_layer = 2]
                 ELSE offered
      Error(sess) ==
        /\ sessions' = [sessions EXCEPT ![s] = sess]
        /\ mountpoints' = [mountpoints EXCEPT ![m] = WatchError(looked)]
        /\ pc' = [pc EXCEPT !.requests = @ + 1, !.fn = "watch", !.error = TRUE, !.stopped = << >>]
      Done(sess, entered, viewer, threads) ==
        /\ sessions' = [sessions EXCEPT ![s] = sess]
        /\ mountpoints' = [mountpoints EXCEPT ![m] = entered]
        /\ pc' = [pc EXCEPT !.requests = @ + 1, !.fn = "watch", !.error = FALSE, !.stopped = << >>,
                            !.ref[s] = @ + threads + viewer,
                            !.thread[s] = @ + threads]
  IN /\ Serving
     /\ AttStep
     /\ IF ~mp.registered THEN Refused("watch")
        ELSE IF ~pin_ok THEN Error(session)
        ELSE IF do_restart THEN Done(session, AddViewer(Unref(looked), s), 0, 0)
        ELSE IF session.mountpoint # NoMountpoint
        THEN IF session.mountpoint # m \/ ~session.started
             THEN Error(session)
             ELSE Done(session, Unref(looked), 0, 0)
        ELSE IF s \in SeqToSet(mp.viewers) THEN Error(session)
        ELSE IF ~offered.audio /\ ~offered.video /\ ~offered.data THEN Error(offered)
        ELSE IF OnDemand(m)
        THEN IF launched
             THEN /\ pc.thread[s] < MaxThreads
                  /\ Done([layered EXCEPT !.mountpoint = m], AddViewer(Ref(looked), s), 1, 1)
             ELSE Error(offered)
        ELSE IF (mp.source.simulcast \/ mp.source.svc) /\ ~params_ok THEN Error(offered)
        ELSE Done([layered EXCEPT !.mountpoint = m], AddViewer(looked, s), 1, 0)

\* janus_streaming_ondemand_thread leaves its loop
AttOndemandExit(s) ==
  /\ Serving
  /\ pc.thread[s] > 0
  /\ mountpoints["file"].destroyed \/ sessions[s].stopping
  /\ mountpoints' = [mountpoints EXCEPT !["file"] = Unref(@)]
  /\ pc' = [pc EXCEPT !.requests = @ + 1, !.fn = "ondemand", !.error = FALSE, !.stopped = << >>,
                      !.ref[s] = @ - 1, !.thread[s] = @ - 1]
  /\ UNCHANGED sessions
  /\ AttStep

\* janus_streaming_hangup_media_internal with the references it gives back
AttHangup(s) ==
  LET m == sessions[s].mountpoint
      viewer == s \in SeqToSet(mountpoints[m].viewers)
  IN /\ Serving
     /\ sessions' = [sessions EXCEPT ![s] = HungUp(@)]
     /\ IF m = NoMountpoint
        THEN /\ UNCHANGED mountpoints
             /\ pc' = [pc EXCEPT !.requests = @ + 1, !.fn = "hangup", !.error = FALSE, !.stopped = << >>]
        ELSE /\ mountpoints' = [mountpoints EXCEPT ![m] =
                  Unsubscribed(IF viewer THEN Unref(@) ELSE @, s)]
             /\ pc' = [pc EXCEPT !.requests = @ + 1, !.fn = "hangup", !.error = FALSE, !.stopped = << >>,
                                 !.ref[s] = IF viewer THEN @ - 1 ELSE @]
     /\ AttStep

\* the "switch" request with the references it takes and gives back
AttSwitch(s, m, outcome, params_ok) ==
  LET session == sessions[s]
      old == session.mountpoint
      mp == mountpoints[m]
      aimed == IF mp.source.svc
               THEN [session EXCEPT !.spatial_layer = -1, !.target_spatial_layer = 2,
                                    !.temporal_layer = -1, !.target_temporal_layer = 2]
               ELSE session
      held == [mountpoints EXCEPT ![old] = Ref(@)]
      looked == [held EXCEPT ![m] = Ref(@)]
      left == [looked EXCEPT ![old] = Unref(Unsubscribed(@, s))]
      helper == SwitchHelper(left[m].threads, 1, 0, 0)
      null == left[m].helper_threads > 0 /\ helper = 0
      entered == [left EXCEPT ![m] = Subscribed(@, s, helper)]
  IN /\ Serving
     /\ AttStep
     /\ IF old = NoMountpoint \/ OnDemand(old) THEN Refused("switch")
        ELSE IF ~mp.registered
        THEN \* "No such mountpoint/stream": the reference on the old one stays
             /\ mountpoints[old].ref < MaxRefs
             /\ sessions' = sessions
             /\ mountpoints' = held
             /\ pc' = [pc EXCEPT !.requests = @ + 1, !.fn = "switch", !.error = TRUE, !.stopped = << >>]
        ELSE IF OnDemand(m) \/ ((mp.source.simulcast \/ mp.source.svc) /\ ~params_ok)
        THEN /\ sessions' = sessions
             /\ mountpoints' = [[looked EXCEPT ![m] = Unref(@)] EXCEPT ![old] = Unref(@)]
             /\ pc' = [pc EXCEPT !.requests = @ + 1, !.fn = "switch", !.error = TRUE, !.stopped = << >>]
        ELSE /\ outcome = "crash" => null
             /\ IF null /\ outcome = "crash"
                THEN /\ mountpoints' = [left EXCEPT ![m].viewers = Append(@, s)]
                     /\ sessions' = [sessions EXCEPT ![s] =
                          [aimed EXCEPT !.mountpoint = NoMountpoint, !.paused = TRUE]]
                ELSE /\ mountpoints' = [entered EXCEPT ![old] = Unref(@)]
                     /\ sessions' = [sessions EXCEPT ![s] =
                          [aimed EXCEPT !.mountpoint = m, !.paused = FALSE]]
             /\ pc' = [pc EXCEPT !.requests = @ + 1, !.fn = "switch", !.error = null, !.stopped = << >>,
                                 !.ub = @ \/ null,
                                 !.process = IF null /\ outcome = "crash" THEN "crashed" ELSE @]

\* the sessions a "Notify users" loop over the viewers kicks, in order
RECURSIVE Notified(_, _, _)
Notified(sess, m, viewers) ==
  IF viewers = << >> THEN << >>
  ELSE (IF sess[Head(viewers)].mountpoint = m THEN << Head(viewers) >> ELSE << >>)
         \o Notified(sess, m, RemoveAll(viewers, Head(viewers)))

\* the ingestion thread at its end: the viewers are gone from the list, the
\* kicked ones gave their reference back, and so did the thread
ThreadGone(m, mp, how) ==
  Unref(UnrefAll([mp EXCEPT !.thread = how, !.viewers = << >>],
                 Len(Notified(sessions, m, mp.viewers))))

\* the helpers without the sessions the destroy request kicked
RECURSIVE HelpersWithout(_, _)
HelpersWithout(threads, kicked) ==
  IF kicked = << >> THEN threads
  ELSE HelpersWithout(RemoveFromHelper(threads, 1, Head(kicked)), Tail(kicked))

\* the references of the sessions after the kicked ones lost one each
Released(kicked) == [s \in Sessions |-> pc.ref[s] - Occurrences(kicked, s)]

\* the ingestion thread of a live mountpoint ends by itself
AttRelayExit(m) ==
  LET mp == mountpoints[m]
  IN /\ Serving
     /\ ~OnDemand(m) /\ mp.thread = "running" /\ ~mp.destroyed
     /\ mountpoints' = [mountpoints EXCEPT ![m] = ThreadGone(m, [mp EXCEPT !.enabled = FALSE], "exited")]
     /\ sessions' = ExitCleanup(m, mp.viewers, sessions)
     /\ pc' = [pc EXCEPT !.requests = @ + 1, !.fn = "exit", !.error = FALSE, !.stopped = Notified(sessions,m,mp.viewers),
                         !.ref = Released(Notified(sessions, m, mp.viewers))]
     /\ AttStep

\* the "destroy" request: lookup, removal from the registry,
\* janus_streaming_mountpoint_destroy (which joins the ingestion thread and
\* destroys the helpers), and the loop that kicks the viewers still listed
AttDestroy(m) ==
  LET mp == mountpoints[m]
      looked == [Ref(mp) EXCEPT !.registered = FALSE, !.destroyed = TRUE]
      joins == ~OnDemand(m) /\ mp.thread = "running"
      byThread == IF joins THEN Notified(sessions, m, mp.viewers) ELSE << >>
      joined == IF joins THEN ThreadGone(m, looked, "joined") ELSE looked
      afterThread == IF joins THEN ExitCleanup(m, mp.viewers, sessions) ELSE sessions
      unlisted == Unref([joined EXCEPT !.threads =
                           [h \in DOMAIN @ |-> [@[h] EXCEPT !.destroyed = TRUE]]])
      byRequest == Notified(afterThread, m, unlisted.viewers)
      kicked == UnrefAll([unlisted EXCEPT !.viewers = << >>,
                                          !.threads = IF unlisted.helper_threads > 0
                                                      THEN HelpersWithout(@, byRequest) ELSE @],
                         Len(byRequest))
  IN /\ Serving
     /\ mp.registered
     /\ mountpoints' = [mountpoints EXCEPT ![m] = Unref(kicked)]
     /\ sessions' = ExitCleanup(m, unlisted.viewers, afterThread)
     /\ pc' = [pc EXCEPT !.requests = @ + 1, !.fn = "destroy", !.error = FALSE, !.stopped = byThread \o byRequest,
                         !.ref = Released(byThread \o byRequest)]
     /\ AttStep

\* the PeerConnection of a session comes up
AttSetup(s) ==
  /\ Serving
  /\ janus_streaming_setup_media(s)

\* the mountpoints of the attachment specifications: live ones with one
\* helper and (doing SVC) with two, and an on-demand one
AttMountpoint(m) ==
  IF m = "file" THEN Counted([NewMountpoint(BaseConfig) EXCEPT !.thread = "none"])
  ELSE Ref(Counted(NewMountpoint(
         IF m = "mp1" THEN [BaseConfig EXCEPT !.threads = 1]
         ELSE [BaseConfig EXCEPT !.audio = FALSE, !.video = TRUE, !.svc = TRUE,
                                 !.threads = 2])))

InitAtt(ids) ==
  /\ mountpoints = [m \in ids |-> AttMountpoint(m)]
  /\ sessions = [s \in Sessions |-> NewSession]
  /\ now = SvcFallback
  /\ sender = [n |-> 0, seq |-> FirstSeq, ts |-> 0]
  /\ calls = << >>
  /\ handled = Nothing
  /\ delivered = << >>
  /\ eligible = << >>
  /\ alloc = NewAlloc
  /\ pc = [process |-> "running", ub |-> FALSE, requests |-> 0, fn |-> "none", error |-> FALSE, stopped |-> << >>,
           ref |-> [s \in Sessions |-> 1], thread |-> [s \in Sessions |-> 0]]
  /\ locks = NoLocks

\* two live mountpoints, an on-demand one and two sessions
InitAttach == InitAtt({"mp1", "mp2", "file"})

NextAttach ==
  \/ \E s \in Sessions, m \in DOMAIN mountpoints, do_restart \in BOOLEAN, fault \in Faults :
       AttWatch(s, m, do_restart, fault)
  \/ \E s \in Sessions : AttSetup(s)
  \/ \E s \in Sessions : AttHangup(s)
  \/ \E s \in Sessions, m \in DOMAIN mountpoints, outcome \in {"crash", "go on"},
        params_ok \in BOOLEAN :
       AttSwitch(s, m, outcome, params_ok)
  \/ \E s \in Sessions : AttOndemandExit(s)
  \/ \E m \in DOMAIN mountpoints : AttRelayExit(m)
  \/ \E m \in DOMAIN mountpoints : AttDestroy(m)

SpecAttach == InitAttach /\ [][NextAttach]_vars

\* no counter falls below zero and nothing listed or registered is freed
AttCounted ==
  /\ \A m \in DOMAIN mountpoints :
       /\ mountpoints[m].ref >= 0
       /\ mountpoints[m].freed => ~mountpoints[m].registered
  /\ \A s \in Sessions : pc.ref[s] >= 1

\* the session is in a viewer list or in a helper's list of the mountpoints
Listed(mps, s) ==
  \E m \in DOMAIN mps :
    \/ s \in SeqToSet(mps[m].viewers)
    \/ \E h \in DOMAIN mps[m].threads : s \in SeqToSet(mps[m].threads[h].viewers)

\* the hangup of a session leaves it without mountpoint, neither started nor
\* paused, with its layers and layer targets as a new session has them
HangupResets ==
  [][\A s \in Sessions : pc'.fn = "hangup" /\ AttHangup(s) =>
       /\ sessions'[s].mountpoint = NoMountpoint
       /\ ~sessions'[s].started /\ ~sessions'[s].paused
       /\ sessions'[s].spatial_layer = -1 /\ sessions'[s].target_spatial_layer = 2
       /\ sessions'[s].temporal_layer = -1 /\ sessions'[s].target_temporal_layer = 2
       /\ sessions'[s].last_spatial_layer = <<0, 0, 0>>]_vars

\* the hangup of a session without mountpoint changes no mountpoint, helper
\* or reference counter
HangupDetachedKeeps ==
  [][\A s \in Sessions : pc'.fn = "hangup" /\ AttHangup(s) /\ sessions[s].mountpoint = NoMountpoint =>
       mountpoints' = mountpoints /\ pc'.ref = pc.ref]_vars

\* the hangup of a session takes it off the viewers of its mountpoint, and
\* gives back one reference of the mountpoint and one of the session if it
\* was listed there
HangupLeavesItsMountpoint ==
  [][\A s \in Sessions : pc'.fn = "hangup" /\ AttHangup(s) /\ sessions[s].mountpoint # NoMountpoint =>
       LET m == sessions[s].mountpoint
           viewer == s \in SeqToSet(mountpoints[m].viewers)
       IN /\ s \notin SeqToSet(mountpoints'[m].viewers)
          /\ mountpoints'[m].ref = mountpoints[m].ref - (IF viewer THEN 1 ELSE 0)
          /\ pc'.ref[s] = pc.ref[s] - (IF viewer THEN 1 ELSE 0)]_vars

\* C31: after the hangup of a session attached to a mountpoint the session is
\* in no mountpoint's viewer list and in no helper's viewer list, has no
\* mountpoint, is neither started nor paused and has its layer targets reset;
\* the hangup of a detached session changes no mountpoint, helper or
\* reference counter
C31_HangupDetaches ==
  [][\A s \in Sessions : pc'.fn = "hangup" /\ AttHangup(s) =>
       IF sessions[s].mountpoint # NoMountpoint
       THEN /\ ~Listed(mountpoints', s)
            /\ sessions'[s].mountpoint = NoMountpoint
            /\ ~sessions'[s].started /\ ~sessions'[s].paused
            /\ sessions'[s].target_spatial_layer = 2
            /\ sessions'[s].target_temporal_layer = 2
       ELSE mountpoints' = mountpoints /\ pc'.ref = pc.ref]_vars

\* s1 watched mp1, was listed by mp2 as well, and has hung up: mp2 and a
\* helper of mp2 still list it
C31_Witness ==
  /\ pc.fn = "hangup" /\ pc.process = "running"
  /\ sessions["s1"].mountpoint = NoMountpoint /\ sessions["s1"].stopping
  /\ ~Listed([m \in {"mp1"} |-> mountpoints[m]], "s1")
  /\ "s1" \in SeqToSet(mountpoints["mp2"].viewers)
  /\ \E h \in DOMAIN mountpoints["mp2"].threads :
       "s1" \in SeqToSet(mountpoints["mp2"].threads[h].viewers)

\* the helpers of the mountpoint that list the session
HelpersOf(mp, s) == { h \in DOMAIN mp.threads : s \in SeqToSet(mp.threads[h].viewers) }

\* a "switch" that is answered without error from a mountpoint to another
\* one leaves the session with the new mountpoint, listed by it and not in
\* the viewer list of the old one, and moves one reference from the old
\* mountpoint to the new one
SwitchMovesReference ==
  [][\A s \in Sessions, m \in DOMAIN mountpoints, params_ok \in BOOLEAN :
       pc'.fn = "switch" /\ ~pc'.error /\ AttSwitch(s, m, "go on", params_ok) /\ sessions[s].mountpoint # m =>
         /\ sessions'[s].mountpoint = m
         /\ s \in SeqToSet(mountpoints'[m].viewers)
         /\ s \notin SeqToSet(mountpoints'[sessions[s].mountpoint].viewers)
         /\ mountpoints'[sessions[s].mountpoint].ref = mountpoints[sessions[s].mountpoint].ref - 1
         /\ mountpoints'[m].ref = mountpoints[m].ref + 1
         /\ pc'.ref = pc.ref]_vars

\* C32: after a successful switch of a watching session from mountpoint A to
\* mountpoint B the session is in B's viewer list exactly once, in exactly
\* one helper of B if B has helpers, in neither A's viewer list nor a helper
\* of A (so that no packet of A reaches it any more), session->mountpoint is
\* B, and A has lost and B has gained exactly one reference
C32_SwitchMoves ==
  [][\A s \in Sessions, m \in DOMAIN mountpoints, params_ok \in BOOLEAN :
       pc'.fn = "switch" /\ ~pc'.error /\ AttSwitch(s, m, "go on", params_ok) /\ sessions[s].mountpoint # m =>
         /\ Occurrences(mountpoints'[m].viewers, s) = 1
         /\ mountpoints'[m].helper_threads > 0 =>
              /\ Cardinality(HelpersOf(mountpoints'[m], s)) = 1
              /\ \A h \in HelpersOf(mountpoints'[m], s) :
                   Occurrences(mountpoints'[m].threads[h].viewers, s) = 1
         /\ s \notin SeqToSet(mountpoints'[sessions[s].mountpoint].viewers)
         /\ HelpersOf(mountpoints'[sessions[s].mountpoint], s) = {}
         /\ sessions'[s].mountpoint = m
         /\ mountpoints'[sessions[s].mountpoint].ref = mountpoints[sessions[s].mountpoint].ref - 1
         /\ mountpoints'[m].ref = mountpoints[m].ref + 1]_vars

\* s1 has switched to mp2 without error and is twice in the viewers of mp2
C32_Witness ==
  /\ pc.fn = "switch" /\ ~pc.error /\ pc.process = "running"
  /\ sessions["s1"].mountpoint = "mp2"
  /\ Occurrences(mountpoints["mp2"].viewers, "s1") = 2
  /\ "s1" \notin SeqToSet(mountpoints["mp1"].viewers)

\* the ingestion thread of the mountpoint ends in this step, by itself or
\* joined by a "destroy" request
ThreadEnds(m) ==
  \/ pc'.fn = "exit" /\ AttRelayExit(m)
  \/ pc'.fn = "destroy" /\ ~OnDemand(m) /\ mountpoints[m].thread = "running" /\ AttDestroy(m)

\* when the ingestion thread of a mountpoint ends, the viewer list is empty
\* afterwards, and every listed session whose mountpoint it was has no
\* mountpoint, is stopping, neither started nor paused, has got one "stopped"
\* event with one close_pc, and holds one reference less
ExitKicksItsViewers ==
  [][\A m \in DOMAIN mountpoints : ThreadEnds(m) =>
       /\ mountpoints'[m].viewers = << >>
       /\ \A s \in SeqToSet(mountpoints[m].viewers) :
            sessions[s].mountpoint = m =>
              /\ sessions'[s].mountpoint = NoMountpoint
              /\ sessions'[s].stopping /\ ~sessions'[s].started /\ ~sessions'[s].paused
              /\ Occurrences(pc'.stopped, s) = 1
              /\ pc'.ref[s] = pc.ref[s] - 1]_vars

\* C36: when the ingestion thread of an RTP mountpoint ends, the viewer list
\* of the mountpoint is empty afterwards and every session that was in it has
\* no mountpoint, is stopping, neither started nor paused, and has been sent
\* exactly one "stopped" event and one close_pc
C36_ExitDetachesViewers ==
  [][\A m \in DOMAIN mountpoints : ThreadEnds(m) =>
       /\ mountpoints'[m].viewers = << >>
       /\ \A s \in SeqToSet(mountpoints[m].viewers) :
            /\ sessions'[s].mountpoint = NoMountpoint
            /\ sessions'[s].stopping /\ ~sessions'[s].started /\ ~sessions'[s].paused
            /\ Occurrences(pc'.stopped, s) = 1]_vars

\* the ingestion thread of mp2 has ended by itself and has notified nobody;
\* s1, which mp2 listed (a helper of mp2 still does), goes on watching mp1
C36_Witness ==
  /\ pc.fn = "exit" /\ mountpoints["mp2"].thread = "exited" /\ pc.stopped = << >>
  /\ mountpoints["mp2"].viewers = << >>
  /\ HelpersOf(mountpoints["mp2"], "s1") # {}
  /\ sessions["s1"].mountpoint = "mp1" /\ ~sessions["s1"].stopping
  /\ "s1" \in SeqToSet(mountpoints["mp1"].viewers)

\* C37: a "watch" request that is answered with an error (unknown mountpoint,
\* wrong pin, already watching, nothing to offer, invalid simulcast or SVC
\* parameters, failed launch of the on-demand thread) leaves
\* session->mountpoint, every viewer list and helper, and the reference
\* counters of the mountpoints and of the sessions as they were
C37_FailedWatchKeeps ==
  [][pc'.requests = pc.requests + 1 /\ pc'.fn = "watch" /\ pc'.error =>
       /\ \A s \in Sessions : sessions'[s].mountpoint = sessions[s].mountpoint
       /\ mountpoints' = mountpoints
       /\ pc'.ref = pc.ref /\ pc'.thread = pc.thread]_vars

\* a "watch" of s1 found nothing to offer: the media flags of the session
\* are off, it has no mountpoint and no list holds it, while s2 is a viewer
\* of the on-demand mountpoint
C37_Witness ==
  /\ pc.fn = "watch" /\ pc.error
  /\ ~sessions["s1"].audio /\ ~sessions["s1"].video /\ ~sessions["s1"].data
  /\ sessions["s1"].mountpoint = NoMountpoint /\ pc.ref["s1"] = 1
  /\ ~Listed(mountpoints, "s1")
  /\ sessions["s2"].mountpoint = "file" /\ pc.thread["s2"] = 1
  /\ mountpoints["file"].ref = 3 /\ mountpoints["mp1"].ref = 2 /\ mountpoints["mp2"].ref = 2

(***************************************************************************)
(* The hangup of a viewer against the end of the ingestion thread and the  *)
(* "destroy" request of its mountpoint: who gives the references back      *)
(***************************************************************************)
\* the mountpoint after the sessions of the list have become its viewers
RECURSIVE Attached(_, _)
Attached(mp, list) ==
  IF list = << >> THEN mp ELSE Attached(AddViewer(Ref(mp), Head(list)), Tail(list))

\* the viewer lists the race starts from
RaceViewers == { << "s1" >>, << "s2" >>, << "s1", "s2" >> }

\* the references given back for the kicked sessions are counted
Given(kicked) == [s \in Sessions |-> pc.given[s] + Occurrences(kicked, s)]

RaceStep == UNCHANGED << now, sender, calls, handled, delivered, eligible, alloc, locks >>

\* hangup_media, first half: the flags are reset and, under the session
\* mutex, session->mountpoint is read and cleared
RaceHangupSession(s) ==
  /\ pc.hangup[s].at = "idle"
  /\ sessions' = [sessions EXCEPT ![s] = HungUp(@)]
  /\ pc' = [pc EXCEPT !.hangup[s] =
              [at |-> IF sessions[s].mountpoint = NoMountpoint THEN "done" ELSE "mountpoint",
               mp |-> sessions[s].mountpoint]]
  /\ UNCHANGED mountpoints
  /\ RaceStep

\* hangup_media, second half, under the mutex of the mountpoint that was
\* read: the references are given back if the viewers hold the session
RaceHangupMountpoint(s) ==
  LET m == pc.hangup[s].mp
      viewer == s \in SeqToSet(mountpoints[m].viewers)
  IN /\ pc.hangup[s].at = "mountpoint"
     /\ mountpoints' = [mountpoints EXCEPT ![m] =
          Unsubscribed(IF viewer THEN Unref(@) ELSE @, s)]
     /\ pc' = [pc EXCEPT !.hangup[s].at = "done",
                         !.ref[s] = IF viewer THEN @ - 1 ELSE @,
                         !.given[s] = IF viewer THEN @ + 1 ELSE @]
     /\ UNCHANGED sessions
     /\ RaceStep

\* the ingestion thread leaves its loop, on a poll error or because the
\* mountpoint is destroyed, and notifies the viewers under the mutex of the
\* mountpoint
RaceRelayExit(m, failed) ==
  LET mp == mountpoints[m]
      kicked == Notified(sessions, m, mp.viewers)
  IN /\ mp.thread = "running"
     /\ mp.destroyed \/ failed
     /\ mountpoints' = [mountpoints EXCEPT ![m] =
          ThreadGone(m, [mp EXCEPT !.enabled = IF mp.destroyed THEN @ ELSE FALSE], "exited")]
     /\ sessions' = ExitCleanup(m, mp.viewers, sessions)
     /\ pc' = [pc EXCEPT !.ref = Released(kicked), !.given = Given(kicked)]
     /\ RaceStep

\* the "destroy" request up to the join in janus_streaming_mountpoint_destroy
RaceDestroyBegin(m) ==
  /\ pc.destroy = "idle" /\ mountpoints[m].registered
  /\ mountpoints' = [mountpoints EXCEPT ![m] =
       [Ref(@) EXCEPT !.registered = FALSE, !.destroyed = TRUE]]
  /\ pc' = [pc EXCEPT !.destroy = "join"]
  /\ UNCHANGED sessions
  /\ RaceStep

\* the ingestion thread is joined (or had ended before): the helpers are
\* destroyed and the reference of the registry is given back
RaceDestroyJoin(m) ==
  /\ pc.destroy = "join" /\ mountpoints[m].thread # "running"
  /\ mountpoints' = [mountpoints EXCEPT ![m] =
       Unref([@ EXCEPT !.threads = [h \in DOMAIN @ |-> [@[h] EXCEPT !.destroyed = TRUE]]])]
  /\ pc' = [pc EXCEPT !.destroy = "kick"]
  /\ UNCHANGED sessions
  /\ RaceStep

\* the loop of the request that kicks the viewers still listed, under the
\* mutex of the mountpoint, and the end of the request
RaceDestroyKick(m) ==
  LET mp == mountpoints[m]
      kicked == Notified(sessions, m, mp.viewers)
  IN /\ pc.destroy = "kick"
     /\ mountpoints' = [mountpoints EXCEPT ![m] =
          Unref(UnrefAll([mp EXCEPT !.viewers = << >>,
                                    !.threads = IF mp.helper_threads > 0
                                                THEN HelpersWithout(@, kicked) ELSE @],
                         Len(kicked)))]
     /\ sessions' = ExitCleanup(m, mp.viewers, sessions)
     /\ pc' = [pc EXCEPT !.destroy = "done", !.ref = Released(kicked), !.given = Given(kicked)]
     /\ RaceStep

\* a live mountpoint with a helper and one or two viewers; its ingestion
\* thread runs, or has ended on a poll error before the viewers came
InitRace ==
  /\ \E list \in RaceViewers, thread \in {"running", "exited"} :
       /\ mountpoints = [m \in {"mp1"} |->
            Attached([Counted(NewMountpoint([BaseConfig EXCEPT !.threads = 1]))
                        EXCEPT !.thread = thread, !.ref = IF thread = "running" THEN 2 ELSE 1,
                               !.enabled = thread = "running"],
                     list)]
       /\ sessions = [s \in Sessions |->
            IF s \in SeqToSet(list)
            THEN [NewSession EXCEPT !.mountpoint = "mp1", !.started = TRUE, !.audio = TRUE,
                                    !.video = FALSE, !.data = FALSE]
            ELSE NewSession]
       /\ pc = [hangup |-> [s \in Sessions |-> [at |-> "idle", mp |-> NoMountpoint]],
                destroy |-> "idle",
                viewer |-> [s \in Sessions |-> s \in SeqToSet(list)],
                ref |-> [s \in Sessions |-> IF s \in SeqToSet(list) THEN 2 ELSE 1],
                given |-> [s \in Sessions |-> 0]]
  /\ now = SvcFallback
  /\ sender = [n |-> 0, seq |-> FirstSeq, ts |-> 0]
  /\ calls = << >>
  /\ handled = Nothing
  /\ delivered = << >>
  /\ eligible = << >>
  /\ alloc = NewAlloc
  /\ locks = NoLocks

NextRace ==
  \/ \E s \in Sessions : RaceHangupSession(s)
  \/ \E s \in Sessions : RaceHangupMountpoint(s)
  \/ \E failed \in BOOLEAN : RaceRelayExit("mp1", failed)
  \/ RaceDestroyBegin("mp1")
  \/ RaceDestroyJoin("mp1")
  \/ RaceDestroyKick("mp1")

SpecRace == InitRace /\ [][NextRace]_vars

\* the request, the thread and every hangup have come to their end
RaceOver ==
  /\ pc.destroy = "done" /\ mountpoints["mp1"].thread # "running"
  /\ \A s \in Sessions : pc.hangup[s].at = "done"

\* the references of a viewer are never given back twice, and no counter
\* falls below zero
RaceNeverTwice ==
  /\ \A s \in Sessions : pc.given[s] <= 1 /\ pc.ref[s] >= 1
  /\ mountpoints["mp1"].ref >= 0

\* C33: under every interleaving of the hangup of a viewer with the exit
\* cleanup of the ingestion thread or the viewer kick of a destroy request
\* the reference the viewer holds on the mountpoint and the one the
\* mountpoint holds on the session are given back exactly once, so that
\* after the destroy and the detachment of all viewers the counter of the
\* mountpoint is zero
C33_ReleasedExactlyOnce ==
  /\ RaceNeverTwice
  /\ RaceOver =>
       /\ \A s \in Sessions : pc.viewer[s] => pc.given[s] = 1 /\ pc.ref[s] = 1
       /\ mountpoints["mp1"].ref = 0 /\ mountpoints["mp1"].freed

\* everything is over: no list holds s1, which has no mountpoint, but its
\* references were never given back and the mountpoint is not freed
C33_Witness ==
  /\ RaceOver
  /\ pc.viewer["s1"] /\ pc.given["s1"] = 0 /\ pc.ref["s1"] = 2
  /\ sessions["s1"].mountpoint = NoMountpoint /\ ~Listed(mountpoints, "s1")
  /\ mountpoints["mp1"].ref > 0 /\ ~mountpoints["mp1"].freed

(***************************************************************************)
(* Do the threads that take the registry, mountpoint and session mutexes   *)
(* wait for one another for ever?                                          *)
(***************************************************************************)
\* the steps of the handler thread within a "watch" or "switch" request
OrderHandler ==
  \/ OrderWatchMountpoint \/ OrderWatchSession \/ OrderWatch
  \/ OrderSwitchRegistry \/ OrderSwitchLookup \/ OrderSwitchLeave \/ OrderSwitchLeft
  \/ OrderSwitchEnter \/ OrderSwitchSession \/ OrderSwitchSubscribe

\* the steps of a "destroy" request that has begun
OrderDestroy ==
  OrderDestroyJoin \/ OrderDestroyMountpoint \/ OrderDestroyViewer \/ OrderDestroyKick

\* the steps of the ingestion thread
OrderRelay ==
  \/ OrderRelayLoop("mp1") \/ OrderRelayed("mp1")
  \/ OrderRelayViewer("mp1") \/ OrderRelayKick("mp1")

\* the steps of a hangup that has begun
OrderHangup(s) == OrderHangupUnlock(s) \/ OrderHangupMountpoint(s) \/ OrderHangupRemove(s)

\* every thread that can go on again and again does go on: no thread is
\* starved of a mutex that keeps becoming free
SpecOrderFair ==
  /\ SpecOrder
  /\ SF_vars(OrderHandler)
  /\ SF_vars(OrderDestroy)
  /\ SF_vars(OrderRelay)
  /\ \A s \in Sessions : SF_vars(OrderHangup(s))

\* C34: no interleaving of a destroy request, the exit cleanup of the
\* ingestion thread, the watch and switch processing of the handler thread
\* and hangup leaves the threads waiting for one another for ever: every
\* destroy request that has begun returns
C34_DestroyReturns == (pc.destroy.at # "idle") ~> (pc.destroy.at = "done")

\* the destroy request holds the registry mutex and waits in the join, the
\* ingestion thread holds the mountpoint's mutex and waits for the mutex of
\* its viewer, which the handler thread holds in a "switch" while it waits
\* for the registry mutex
C34_Witness ==
  /\ pc.destroy.at = "join" /\ locks[Registry] = {"destroy"}
  /\ pc.relay.at = "viewer" /\ locks["mp1"] = {"relay"}
  /\ mountpoints["mp1"].viewers # << >>
  /\ locks[Head(mountpoints["mp1"].viewers)] = {"handler"}
  /\ pc.handler.at = "switch registry"
  /\ \A s \in Sessions : pc.hangup[s].at \in {"idle", "mountpoint"}

(***************************************************************************)
(* RTCP from the source: the datagrams of the audio and video RTCP         *)
(* sockets, fanned out to the viewers                                      *)
(***************************************************************************)
\* the struct of the ingestion thread before the first datagram: nothing
\* has assigned is_rtp and is_keyframe
StackOf(is_rtp, is_keyframe) ==
  [NoPacket EXCEPT !.is_rtp = is_rtp, !.is_keyframe = is_keyframe]

\* g_list_foreach(mountpoint->viewers, janus_streaming_relay_rtcp_packet, &packet)
RECURSIVE RtcpToViewers(_, _, _, _)
RtcpToViewers(viewers, sess, packet, acc) ==
  IF viewers = << >> THEN acc
  ELSE LET v == Head(viewers)
           r == janus_streaming_relay_rtcp_packet(sess[v], packet)
       IN RtcpToViewers(Tail(viewers), sess, packet,
                        acc \o TagCalls(r.calls, v, packet, r.data, "direct"))

\* the "Go!" block of the RTCP sockets: janus_streaming_relay_rtcp_packet
\* for every viewer, or a clone queued for every helper
FanOutRtcp(mp, sess, packet, time, ext) ==
  IF mp.helper_threads = 0
  THEN [mp |-> [mp EXCEPT !.source.packet = packet], sessions |-> sess,
        calls |-> RtcpToViewers(mp.viewers, sess, packet, << >>)]
  ELSE FanOut(mp, sess, packet, time, ext)

\* one datagram on the audio or on the video RTCP socket; kind is what
\* janus_is_rtp and janus_is_rtcp make of it.  The branch assigns is_video,
\* data and length: the other fields of the struct keep what the datagram
\* before left in them.  The address the datagram came from is latched in
\* the source, which this model of the mountpoint does not hold.
IngestRtcp(m, video, kind, ext) ==
  LET mp == mountpoints[m]
      packet == [mp.source.packet EXCEPT
                   !.id = sender.n + 1, !.recv_enabled = mp.enabled,
                   !.wire_svc = FALSE, !.wire_info = NoSvcInfo, !.wire_text = FALSE,
                   !.is_video = video, !.data = Payload]
  IN /\ mp.thread = "running"
     /\ sender.n < MaxPackets
     /\ IF kind = "other" \/ ~mp.enabled \/ kind = "rtp"
        THEN Ingested(m, mp, FALSE, TRUE) /\ pc' = pc
        ELSE /\ \E r \in { FanOutRtcp(mp, sessions, packet, now, ext) } :
                  /\ mountpoints' = [mountpoints EXCEPT ![m] = r.mp]
                  /\ sessions' = r.sessions
                  /\ calls' = r.calls
                  /\ delivered' = Deliver(delivered, r.calls)
             /\ sender' = Sent(FALSE, TRUE)
             /\ handled' = Handled(packet)
             /\ pc' = [pc EXCEPT !.rtcp = @ \cup {packet.id}]
             /\ UNCHANGED << now, eligible, alloc, locks >>

RtcpIn ==
  \E video \in BOOLEAN, kind \in {"rtcp", "rtp", "other"}, ext \in Exts(mountpoints["mp1"]) :
    IngestRtcp("mp1", video, kind, ext)

\* a mountpoint with audio and data, with and without a helper, and one
\* viewer; the ingestion thread starts on a stack of any content, and
\* pc.rtcp holds the datagrams that came in on an RTCP socket
InitFeedback ==
  /\ \E threads \in {0, 1}, is_rtp \in BOOLEAN, is_keyframe \in BOOLEAN :
       mountpoints = [m \in {"mp1"} |->
         [NewMountpoint([BaseConfig EXCEPT !.data = TRUE, !.threads = threads])
            EXCEPT !.source.packet = StackOf(is_rtp, is_keyframe)]]
  /\ sessions = [s \in {"s1"} |-> NewSession]
  /\ now = SvcFallback
  /\ sender = [n |-> 0, seq |-> FirstSeq, ts |-> 0]
  /\ calls = << >>
  /\ handled = Nothing
  /\ delivered = [s \in {"s1"} |-> << >>]
  /\ eligible = [s \in {"s1"} |-> [since |-> 0, ids |-> << >>]]
  /\ alloc = NewAlloc
  /\ pc = [rtcp |-> {}]
  /\ locks = NoLocks

NextFeedback ==
  \/ AudioIn
  \/ DataIn
  \/ RtcpIn
  \/ Helpers
  \/ Join({2})
  \/ janus_streaming_data_ready("s1")

SpecFeedback == InitFeedback /\ [][NextFeedback]_vars

\* the gateway calls of the last step that were made for a datagram of an
\* RTCP socket
RtcpCalls == { i \in 1..Len(calls) : calls[i].call.id \in pc.rtcp }

\* without helpers the ingestion thread hands an RTCP datagram to relay_rtcp
RtcpDirect ==
  \A i \in RtcpCalls : calls[i].via = "direct" => calls[i].call.fn = "relay_rtcp"

\* with helpers, a datagram of an RTCP socket is handed to the function that
\* the is_rtp of the datagram before it selects
RtcpFollowsTheStack ==
  [][\A h \in DOMAIN mountpoints["mp1"].threads :
       \A k \in 1..Len(mountpoints'["mp1"].threads[h].queued_packets) :
         LET pkt == mountpoints'["mp1"].threads[h].queued_packets[k]
         IN (pkt.id \in pc'.rtcp /\ pkt.id \notin pc.rtcp)
              => pkt.is_rtp = mountpoints["mp1"].source.packet.is_rtp]_vars

\* C35: on a mountpoint with helper workers, every gateway call made for a
\* datagram of an RTCP socket is a relay_rtcp, whatever the ingestion thread
\* handled before that datagram
C35_RtcpThroughRelayRtcp ==
  mountpoints["mp1"].helper_threads > 0
    => \A i \in RtcpCalls : calls[i].call.fn = "relay_rtcp"

\* a helper has handed the RTCP datagram that followed an audio packet to
\* relay_rtp, as an RTP packet
C35_Witness ==
  /\ mountpoints["mp1"].helper_threads > 0
  /\ \E i \in RtcpCalls :
       /\ calls[i].via = "helper" /\ calls[i].call.fn = "relay_rtp"
       /\ calls[i].call.id - 1 \notin pc.rtcp
       /\ \E k \in 1..Len(delivered["s1"]) : delivered["s1"][k].id = calls[i].call.id - 1

(***************************************************************************)
(* The indexes of session->last_spatial_layer on the SVC path              *)
(***************************************************************************)
\* the conditions under which janus_streaming_relay_rtp_packet gets to its
\* SVC branch
SvcPathTaken(session, packet) ==
  /\ ~NotReady(session, packet)
  /\ packet.is_rtp /\ packet.is_video
  /\ ~FlagOff(session.video)
  /\ packet.svc

\* the elements of last_spatial_layer the while loop reads, from
\* new_spatial_layer downwards
RECURSIVE SpatialReads(_, _, _, _)
SpatialReads(new_spatial_layer, session, time, oob) ==
  IF new_spatial_layer > session.spatial_layer /\ new_spatial_layer > 0
  THEN {new_spatial_layer} \cup
       (IF time - LastSpatialLayer(session, new_spatial_layer, oob) >= SvcFallback
        THEN SpatialReads(new_spatial_layer - 1, session, time, oob)
        ELSE {})
  ELSE {}

\* every index the SVC branch uses on last_spatial_layer for one packet: the
\* element it writes for the packet's layer, and the elements the upscale
\* reads on a keyframe
SpatialIndexes(session, packet, time, oob) ==
  LET info == packet.svc_info
      written == IF info.spatial_layer \in 0..2 THEN {info.spatial_layer} ELSE {}
      s0 == IF info.spatial_layer \in 0..2
            THEN [session EXCEPT !.last_spatial_layer[info.spatial_layer + 1] = time]
            ELSE session
  IN written \cup
     (IF s0.target_spatial_layer > s0.spatial_layer /\ packet.data.keyframe
      THEN SpatialReads(s0.target_spatial_layer, s0, time, oob)
      ELSE {})

\* the packet a step hands to janus_streaming_relay_rtp_packet for viewer v:
\* the one the ingestion thread fans out itself, or the head of the queue of
\* v's helper
SvcForwarded(v) ==
  LET mp == mountpoints["mp1"]
  IN IF mp.helper_threads = 0
     THEN IF handled' # Nothing /\ sender'.n = sender.n + 1 /\ v \in SeqToSet(mp.viewers)
          THEN {mountpoints'["mp1"].source.packet}
          ELSE {}
     ELSE UNION { IF /\ mp.threads[h].queued_packets # << >>
                     /\ mountpoints'["mp1"].threads[h].queued_packets
                          = Tail(mp.threads[h].queued_packets)
                     /\ v \in SeqToSet(mp.threads[h].viewers)
                  THEN {Head(mp.threads[h].queued_packets)}
                  ELSE {} : h \in DOMAIN mp.threads }

\* the indexes are those of the array as long as the target is one of its
\* layers
SpatialIndexesOfKnownLayers ==
  [][\A v \in DOMAIN sessions : \A p \in SvcForwarded(v) :
       (SvcPathTaken(sessions[v], p) /\ sessions[v].target_spatial_layer \in 0..2)
         => \A oob \in {0, now} : SpatialIndexes(sessions[v], p, now, oob) \subseteq 0..2]_vars

\* C38: every index used on last_spatial_layer while an SVC packet is
\* forwarded to a viewer lies in 0..2, whatever target spatial layer a
\* request stored in the session and whatever layer the packet carries
C38_SpatialIndexInRange ==
  [][\A v \in DOMAIN sessions : \A p \in SvcForwarded(v) :
       SvcPathTaken(sessions[v], p)
         => \A oob \in {0, now} : SpatialIndexes(sessions[v], p, now, oob) \subseteq 0..2]_vars

\* a keyframe of an SVC source has been relayed to a viewer whose target
\* spatial layer is 3 and whose achieved layer is below it: the upscale has
\* read last_spatial_layer[3]
C38_Witness ==
  \E i \in 1..Len(calls) :
    /\ calls[i].call.fn = "relay_rtp" /\ calls[i].call.svc
    /\ calls[i].call.buffer.keyframe
    /\ sessions[calls[i].viewer].target_spatial_layer = 3
    /\ calls[i].call.achieved < 3

(***************************************************************************)
(* The keyframe buffer of a source whose RTP timestamps pass through 0     *)
(***************************************************************************)
\* the timestamp of the source's frame before its first one: the first
\* frame it sends has timestamp 0
LastStamp == Seq32 - 1

\* a video datagram: the first packet of a frame or a later one; only the
\* first packet of a keyframe is one the codec's test recognizes
StampIn ==
  \E newframe \in BOOLEAN, keyframe \in BOOLEAN, ext \in Exts(mountpoints["mp1"]) :
    /\ keyframe => newframe
    /\ IngestVideo("mp1", TRUE, SourceSsrc, TRUE, 0, newframe, keyframe, 0, NoSvcInfo, ext)
    /\ UNCHANGED pc

\* a mountpoint with video and a keyframe buffer, and a source about to
\* send the frame with timestamp 0
InitStamps ==
  /\ mountpoints = [m \in {"mp1"} |->
       NewMountpoint([BaseConfig EXCEPT !.video = TRUE, !.bufferkf = TRUE])]
  /\ sessions = [s \in {"s1"} |-> NewSession]
  /\ now = SvcFallback
  /\ sender = [n |-> 0, seq |-> FirstSeq, ts |-> LastStamp]
  /\ calls = << >>
  /\ handled = Nothing
  /\ delivered = << >>
  /\ eligible = << >>
  /\ alloc = NewAlloc
  /\ pc = NoThreads
  /\ locks = NoLocks

NextStamps ==
  \/ StampIn
  \/ Join({2})
  \/ Enable("mp1")
  \/ Disable("mp1")

SpecStamps == InitStamps /\ [][NextStamps]_vars

\* the packets of a list of the keyframe buffer carry one RTP timestamp, and
\* the first of them is the start of a keyframe
OneKeyframeGroup(list) ==
  /\ \A i, j \in 1..Len(list) : ntohl(list[i].data.timestamp) = ntohl(list[j].data.timestamp)
  /\ list # << >> => list[1].data.keyframe

\* while the timestamp of the keyframe being saved is not 0, the list being
\* saved is one group, of that timestamp
SavedGroupWhileStamped ==
  LET kf == mountpoints["mp1"].source.keyframe
  IN (kf.temp_ts > 0 /\ \A i \in 1..Len(kf.temp_keyframe) :
          ntohl(kf.temp_keyframe[i].data.timestamp) # 0)
       => OneKeyframeGroup(kf.temp_keyframe)

\* C39: at all times the packets of the latest keyframe, and those of the
\* keyframe being saved, have one RTP timestamp and are a group whose first
\* packet is the start of a keyframe, also when packets with timestamp 0
\* arrive while no keyframe is being saved
C39_BuffersHoldOneGroup ==
  /\ OneKeyframeGroup(mountpoints["mp1"].source.keyframe.latest_keyframe)
  /\ OneKeyframeGroup(mountpoints["mp1"].source.keyframe.temp_keyframe)

\* the latest keyframe starts with a packet of timestamp 0 that was stored
\* while no keyframe was being saved, followed by the keyframe of a later
\* timestamp
C39_Witness ==
  LET latest == mountpoints["mp1"].source.keyframe.latest_keyframe
  IN /\ Len(latest) >= 2
     /\ ntohl(latest[1].data.timestamp) = 0 /\ ~latest[1].data.keyframe
     /\ ntohl(latest[2].data.timestamp) > 0 /\ latest[2].data.keyframe

(***************************************************************************)
(* The synchronous requests that look a mountpoint up: info, edit,         *)
(* destroy, recording, enable and disable, with the registry mutex and the *)
(* reference each of them takes on the mountpoint                          *)
(***************************************************************************)
\* the thread a synchronous request runs in
Transport == "transport"

\* janus_mutex_lock(&mountpoints_mutex) returns: the mutex is free, and the
\* process has requests left to serve
Asking == pc.requests < MaxRequests /\ MutexFree(locks[Registry])

SyncStep ==
  /\ calls' = << >>
  /\ handled' = Nothing
  /\ UNCHANGED << now, sender, delivered, eligible, alloc >>

\* the request returns: which one it was and whether it answered an error
Returned(fn, error) ==
  pc' = [pc EXCEPT !.requests = @ + 1, !.fn = fn, !.error = error]

\* an error found before the lookup, or "No such mountpoint": the mutex, if
\* taken, is unlocked and nothing is referenced
NotLooked(fn) ==
  /\ Returned(fn, TRUE)
  /\ UNCHANGED << mountpoints, sessions, locks >>

\* janus_refcount_decrease(&mp->ref); janus_mutex_unlock(&mountpoints_mutex);
\* around the mountpoint as the request leaves it
Answered(fn, error, m, mp) ==
  /\ Returned(fn, error)
  /\ mountpoints' = [mountpoints EXCEPT ![m] = Unref(mp)]
  /\ UNCHANGED << sessions, locks >>

\* janus_mutex_unlock(&mountpoints_mutex) without the janus_refcount_decrease
UnlockedOnly(fn, m, mp) ==
  /\ Returned(fn, TRUE)
  /\ mountpoints' = [mountpoints EXCEPT ![m] = mp]
  /\ UNCHANGED << sessions, locks >>

\* "goto prepare_response" with the mutex locked and the reference held
NotUnlocked(fn, m, mp) ==
  /\ Returned(fn, TRUE)
  /\ mountpoints' = [mountpoints EXCEPT ![m] = mp]
  /\ locks' = [locks EXCEPT ![Registry] = @ \cup {Transport}]
  /\ UNCHANGED sessions

\* the "info" request
SyncInfo(m) ==
  LET mp == mountpoints[m]
  IN /\ Asking /\ SyncStep
     /\ IF ~mp.registered THEN NotLooked("info")
        ELSE Answered("info", FALSE, m, Ref(mp))

\* the "edit" request: the description, secret, pin and the like are not
\* part of the mountpoint here
SyncEdit(m, secret_ok) ==
  LET mp == mountpoints[m]
  IN /\ Asking /\ SyncStep
     /\ IF ~mp.registered THEN NotLooked("edit")
        ELSE Answered("edit", ~secret_ok, m, Ref(mp))

\* the "destroy" request: lookup, removal from the registry,
\* janus_streaming_mountpoint_destroy (which joins the ingestion thread and
\* destroys the helpers), and the loop that kicks the viewers still listed
SyncDestroy(m, secret_ok) ==
  LET mp == mountpoints[m]
      looked == [Ref(mp) EXCEPT !.registered = FALSE, !.destroyed = TRUE]
      joins == ~OnDemand(m) /\ mp.thread = "running"
      joined == IF joins THEN ThreadGone(m, looked, "joined") ELSE looked
      afterThread == IF joins THEN ExitCleanup(m, mp.viewers, sessions) ELSE sessions
      unlisted == Unref([joined EXCEPT !.threads =
                           [h \in DOMAIN @ |-> [@[h] EXCEPT !.destroyed = TRUE]]])
      byRequest == Notified(afterThread, m, unlisted.viewers)
      kicked == UnrefAll([unlisted EXCEPT !.viewers = << >>,
                                          !.threads = IF unlisted.helper_threads > 0
                                                      THEN HelpersWithout(@, byRequest) ELSE @],
                         Len(byRequest))
  IN /\ Asking /\ SyncStep
     /\ IF ~mp.registered THEN NotLooked("destroy")
        ELSE IF ~secret_ok THEN Answered("destroy", TRUE, m, Ref(mp))
        ELSE /\ Returned("destroy", FALSE)
             /\ mountpoints' = [mountpoints EXCEPT ![m] = Unref(kicked)]
             /\ sessions' = ExitCleanup(m, unlisted.viewers, afterThread)
             /\ UNCHANGED locks

\* the "recording" request; audio, video and data say which of the three
\* the request names (for "stop": names and sets to true), created whether
\* janus_recorder_create returns a recorder
SyncRecording(m, action, secret_ok, valid, audio, video, data, created) ==
  LET mp == mountpoints[m]
      source == mp.source
      looked == Ref(mp)
      started == [looked EXCEPT !.source.arc = @ \/ audio, !.source.vrc = @ \/ video,
                                !.source.drc = @ \/ data]
      stopped == [looked EXCEPT !.source.arc = @ /\ ~audio, !.source.vrc = @ /\ ~video,
                                !.source.drc = @ /\ ~data]
  IN /\ Asking /\ SyncStep
     /\ IF action \notin {"start", "stop"} THEN NotLooked("recording")
        ELSE IF ~mp.registered THEN NotLooked("recording")
        ELSE IF OnDemand(m) THEN Answered("recording", TRUE, m, looked)
        ELSE IF ~secret_ok THEN Answered("recording", TRUE, m, looked)
        ELSE IF action = "start"
        THEN IF ~valid THEN Answered("recording", TRUE, m, looked)
             ELSE IF (audio /\ source.arc) \/ (video /\ source.vrc) \/ (data /\ source.drc)
             THEN Answered("recording", TRUE, m, looked)
             ELSE IF ~audio /\ ~video /\ ~data THEN Answered("recording", TRUE, m, looked)
             ELSE IF ~created THEN Answered("recording", TRUE, m, looked)
             ELSE Answered("recording", FALSE, m, started)
        ELSE IF ~valid THEN UnlockedOnly("recording", m, looked)
             ELSE IF ~audio /\ ~video THEN UnlockedOnly("recording", m, looked)
             ELSE Answered("recording", FALSE, m, stopped)

\* the "enable" request
SyncEnable(m, secret_ok) ==
  LET mp == mountpoints[m]
  IN /\ Asking /\ SyncStep
     /\ IF ~mp.registered THEN NotLooked("enable")
        ELSE IF ~secret_ok THEN Answered("enable", TRUE, m, Ref(mp))
        ELSE Answered("enable", FALSE, m, [Ref(mp) EXCEPT !.enabled = TRUE])

\* the "disable" request; valid says whether its "stop_recording", if
\* any, is a boolean
SyncDisable(m, secret_ok, valid, stop_recording) ==
  LET mp == mountpoints[m]
      disabled == [Ref(mp) EXCEPT !.enabled = FALSE]
  IN /\ Asking /\ SyncStep
     /\ IF ~mp.registered THEN NotLooked("disable")
        ELSE IF ~secret_ok THEN Answered("disable", TRUE, m, Ref(mp))
        ELSE IF ~valid THEN NotUnlocked("disable", m, Ref(mp))
        ELSE Answered("disable", FALSE, m,
                      IF ~OnDemand(m) /\ stop_recording THEN CloseRecorders(disabled)
                      ELSE disabled)

\* a live RTP mountpoint and an on-demand one that nobody watches, and the
\* registry mutex free
InitSync ==
  /\ mountpoints = [m \in {"mp1", "file"} |-> AttMountpoint(m)]
  /\ sessions = [s \in Sessions |-> NewSession]
  /\ now = SvcFallback
  /\ sender = [n |-> 0, seq |-> FirstSeq, ts |-> 0]
  /\ calls = << >>
  /\ handled = Nothing
  /\ delivered = << >>
  /\ eligible = << >>
  /\ alloc = NewAlloc
  /\ pc = [requests |-> 0, fn |-> "none", error |-> FALSE]
  /\ locks = [mutex \in {Registry} |-> {}]

NextSync ==
  \/ \E m \in DOMAIN mountpoints : SyncInfo(m)
  \/ \E m \in DOMAIN mountpoints, secret_ok \in BOOLEAN : SyncEdit(m, secret_ok)
  \/ \E m \in DOMAIN mountpoints, secret_ok \in BOOLEAN : SyncDestroy(m, secret_ok)
  \/ \E m \in DOMAIN mountpoints, action \in {"start", "stop", "pause"},
        secret_ok, valid, audio, video, data, created \in BOOLEAN :
       SyncRecording(m, action, secret_ok, valid, audio, video, data, created)
  \/ \E m \in DOMAIN mountpoints, secret_ok \in BOOLEAN : SyncEnable(m, secret_ok)
  \/ \E m \in DOMAIN mountpoints, secret_ok, valid, stop_recording \in BOOLEAN :
       SyncDisable(m, secret_ok, valid, stop_recording)

SpecSync == InitSync /\ [][NextSync]_vars

\* the references a mountpoint that nobody watches is held by: the registry's
\* and the ingestion thread's
Owed(mp) ==
  (IF mp.registered THEN 1 ELSE 0) + (IF mp.thread = "running" THEN 1 ELSE 0)

\* every request but a "disable" with a malformed stop_recording leaves
\* the registry mutex as it found it, and every request but that one and a
\* "recording" stop that fails its validation leaves no reference behind
SyncReleasesButTwo ==
  [][pc'.requests = pc.requests + 1
       => /\ ~(pc'.fn = "disable" /\ pc'.error) => locks' = locks
          /\ ~(pc'.fn \in {"disable", "recording"} /\ pc'.error)
               => \A m \in DOMAIN mountpoints :
                    mountpoints'[m].ref - Owed(mountpoints'[m])
                      = mountpoints[m].ref - Owed(mountpoints[m])]_vars

\* C40: when a synchronous request that looks a mountpoint up has returned,
\* with success or with an error, the registry mutex is free and the
\* mountpoint holds no reference of the request, so that the next request
\* gets the mutex
C40_SyncRequestsRelease ==
  /\ MutexFree(locks[Registry])
  /\ \A m \in DOMAIN mountpoints : mountpoints[m].ref = Owed(mountpoints[m])

\* a "disable" request has answered an error and the registry mutex is
\* still locked, with the mountpoint referenced once more than it is held
C40_Witness ==
  /\ pc.fn = "disable" /\ pc.error
  /\ locks[Registry] = {Transport}
  /\ \E m \in DOMAIN mountpoints : mountpoints[m].ref = Owed(mountpoints[m]) + 1

====
